---- MODULE Spec2Model ----
(***************************************************************************)
(* A model of the encrypted-backup repository: the ordered task pool       *)
(* (backup/src/pool.rs), the AEAD helpers (backup/src/crypto.rs), the      *)
(* chunked file encryption (src/backup_crypto.rs), the pooled             *)
(* encrypt/decrypt pipeline built from them, and backup() (src/backup.rs). *)
(***************************************************************************)
EXTENDS Integers, Sequences, FiniteSets, TLC

(***************************************************************************)
(* Bounds of the model.                                                    *)
(***************************************************************************)
\* the largest pool size task_channel is called with
MaxPool == 2
\* the length of the producer's task list
MaxTasks == 9
\* the number of tasks of the list that may panic when run
MaxPanics == 1
\* the longest source file that is encrypted
MaxLen == 5

\* the longest source file of the runs with I/O faults and truncated backups
MaxFaultLen == 5
\* the longest source file whose backup is cut short
MaxTruncLen == 2

\* the chunk sizes, the passwords and the values the nonce generator can give
ChunkSizes == {1, 2}
Passwords == {1, 2}
NonceDraws == {0, 1}

VARIABLES
    \* ---- the task pool and the two halves of its channel
    size,              \* task_channel's argument
    num_tasks,         \* the length of the producer's task list
    nonce_draws,       \* the values the nonce generator can give in this run
    producer,          \* "active" | "failed" (send returned Err) | "dropped"
    sent,              \* number of tasks send() has accepted
    panics_left,       \* how many more tasks of the list may be panicking ones
    request_chan,      \* buffer of sync_channel(size) for requests
    dispatcher,        \* [pc, held, request_index]
    workers,           \* worker index -> [pc, held]
    collector,         \* [pc, held, response_index]
    response_chan,     \* buffer of sync_channel(size) for responses
    consumer,          \* "recv" | "write" (the writer holds a result) |
                       \* "none" (recv returned None) | "dropped"
    received,          \* the values recv() has returned, in order
    ran_by,            \* task id -> the workers that ran it, in order
    \* ---- a file encryption followed by the decryption of its output
    impl,              \* "sync" (encrypt_file_sync) | "pool" (pipeline) | "none"
    plaintext,         \* the source file
    chunk_size,
    enc_password,
    dec_password,
    op,                \* "encrypt" | "decrypt" | "end" | "idle"
    pos,               \* the read position in the file being read
    backup_file,       \* what encryption has written
    decrypted,         \* what decryption has written
    reader_result,     \* "running" | "Ok" | "IOError"
    writer_result,     \* "running" | "Ok" | "IOError" | "CryptoError"
    enc_result,        \* "running" | "Ok" | an error
    dec_result,        \* "running" | "Ok" | an error | "panic"
    \* ---- a call of one of the helper functions, and a run of backup()
    call,              \* [fn, arg, ret]: the function called, its input, its result
    bk,                \* the state of a run of backup(): see BackupCall
    \* ---- src/pool.rs: a TaskPool, its threads and the thread that uses it
    tp,                \* see TaskPoolNew
    ui                 \* the GUI component being run, see AppMount

cfgVars == <<size, num_tasks, nonce_draws>>
envVars == <<producer, sent, panics_left, consumer, received>>
poolVars == <<request_chan, dispatcher, workers, collector, response_chan, ran_by>>
fileVars == <<impl, plaintext, chunk_size, enc_password, dec_password, op, pos,
              backup_file, decrypted, reader_result, writer_result, enc_result,
              dec_result>>

auxVars == <<call, bk>>

vars == <<cfgVars, ui, tp, envVars, poolVars, fileVars, auxVars>>

(***************************************************************************)
(* Byte sequences.                                                         *)
(***************************************************************************)
\* v[a+1 .. b], clipped to v (a Rust slice v[a..b] of a range that exists)
Slice(v, a, b) == SubSeq(v, a + 1, IF b < Len(v) THEN b ELSE Len(v))

Min(a, b) == IF a < b THEN a ELSE b

Zeros(n) == [i \in 1 .. n |-> 0]

(***************************************************************************)
(* crypto.rs: the AEAD helpers.  Aes256Gcm is a library: it is modelled as *)
(* a stream cipher keyed by (key, nonce) followed by a 16-byte tag that    *)
(* verifies only under the key, nonce and ciphertext it was made from.     *)
(***************************************************************************)
AES_KEY_SIZE == 32
AES_NONCE_SIZE == 12
\* the length of the tag Aes256Gcm appends to the ciphertext
GCM_TAG_SIZE == 16

\* password_to_key: SHA-256 of the password, modelled as an injective map from
\* the passwords to 32-byte keys
password_to_key(password) == [i \in 1 .. AES_KEY_SIZE |-> (password * 37 + i * 11) % 256]

\* Aes256Gcm::generate_nonce / rand::random: the r-th value the generator can give
GenerateNonce(r) == [i \in 1 .. AES_NONCE_SIZE |-> (r * 53 + i) % 256]

KeyStream(key, nonce, i) == (key[1] * 7 + key[2] + nonce[1] * 13 + i * 29) % 256

GcmTag(key, nonce, ct) ==
    <<key[1], key[2], nonce[1], Len(ct) % 256>>
        \o [i \in 1 .. (GCM_TAG_SIZE - 4) |-> IF i <= Len(ct) THEN ct[i] ELSE 0]

\* cipher.encrypt(&nonce, plaintext): ciphertext followed by the tag
GcmEncrypt(key, nonce, msg) ==
    LET ct == [i \in 1 .. Len(msg) |-> (msg[i] + KeyStream(key, nonce, i)) % 256]
    IN  ct \o GcmTag(key, nonce, ct)

\* cipher.decrypt(&nonce, ciphertext): Err when there is no room for a tag or
\* the tag does not verify
GcmDecrypt(key, nonce, ciphertext) ==
    IF Len(ciphertext) < GCM_TAG_SIZE
    THEN [ok |-> FALSE, err |-> "CryptoError"]
    ELSE LET ct == Slice(ciphertext, 0, Len(ciphertext) - GCM_TAG_SIZE)
             tag == Slice(ciphertext, Len(ciphertext) - GCM_TAG_SIZE, Len(ciphertext))
         IN  IF tag # GcmTag(key, nonce, ct)
             THEN [ok |-> FALSE, err |-> "CryptoError"]
             ELSE [ok |-> TRUE,
                   data |-> [i \in 1 .. Len(ct) |-> (ct[i] - KeyStream(key, nonce, i)) % 256]]

\* a faulty variant of aes_encrypt, which leaves the nonce out of its output
aes_encrypt_without_nonce(key, msg, r) ==
    [ok |-> TRUE, data |-> GcmEncrypt(key, GenerateNonce(r), msg)]

\* aes_encrypt(key, plaintext), with r the generator's draw
aes_encrypt(key, msg, r) ==
    LET nonce == GenerateNonce(r)
    IN  [ok |-> TRUE, data |-> nonce \o GcmEncrypt(key, nonce, msg)]

\* split_at(AES_NONCE_SIZE) panics when the slice is shorter than that
AesDecryptPanics(ciphertext_with_nonce) == Len(ciphertext_with_nonce) < AES_NONCE_SIZE

\* a faulty variant of aes_decrypt, which strips the tag without verifying it
aes_decrypt_unverified(key, ciphertext_with_nonce) ==
    LET nonce_slice == Slice(ciphertext_with_nonce, 0, AES_NONCE_SIZE)
        ct == Slice(ciphertext_with_nonce, AES_NONCE_SIZE,
                    Len(ciphertext_with_nonce) - GCM_TAG_SIZE)
    IN  [ok |-> TRUE,
         data |-> [i \in 1 .. Len(ct) |-> (ct[i] - KeyStream(key, nonce_slice, i)) % 256]]

\* aes_decrypt(key, ciphertext_with_nonce), where it does not panic
aes_decrypt(key, ciphertext_with_nonce) ==
    LET nonce_slice == Slice(ciphertext_with_nonce, 0, AES_NONCE_SIZE)
        ciphertext == Slice(ciphertext_with_nonce, AES_NONCE_SIZE, Len(ciphertext_with_nonce))
    IN  GcmDecrypt(key, nonce_slice, ciphertext)

(***************************************************************************)
(* backup_crypto.rs: length-prefixed sections.                             *)
(***************************************************************************)
LEN_SIZE == 5

\* usize is 64 bits wide (the tests of the codec use values above 2^32); a
\* usize is held as its bytes, the least significant first
USIZE_BYTES == 8

\* usize::from(val), data.len(): a number the model can count with, as a usize
Usize(n) ==
    LET From[m \in Nat, k \in Nat] ==
            IF k = 0 THEN <<>> ELSE <<m % 256>> \o From[m \div 256, k - 1]
    IN  From[n, USIZE_BYTES]

\* size % 256
LowByte(u) == u[1]

\* size >>= 8
Shr8(u) == SubSeq(u, 2, USIZE_BYTES) \o <<0>>

\* size <<= 8: the bits shifted out are lost
Shl8(u) == <<0>> \o SubSeq(u, 1, USIZE_BYTES - 1)

\* size += val, byte by byte with the carry
AddCarry(u, c) ==
    LET Add[v \in Seq(Nat), d \in Nat] ==
            IF v = <<>> \/ d = 0 THEN v
            ELSE <<(Head(v) + d) % 256>> \o Add[Tail(v), (Head(v) + d) \div 256]
    IN  Add[u, c]

\* a usize below 2^24, and its value
IsSmall(u) == \A i \in 4 .. USIZE_BYTES : u[i] = 0
ToInt(u) == u[1] + 256 * u[2] + 65536 * u[3]

\* a faulty variant of encode_section_size, which fills encoded_size from its
\* first byte on
encode_section_size_from_front(size_arg) ==
    LET Into[left \in Seq(Nat), k \in Nat] ==
            IF k = 0 THEN <<>> ELSE <<LowByte(left)>> \o Into[Shr8(left), k - 1]
    IN  Into[size_arg, LEN_SIZE]

\* encode_section_size: encoded_size[LEN_SIZE - i - 1] = size % 256; size >>= 8,
\* for i from 0 to LEN_SIZE - 1
encode_section_size(size_arg) ==
    LET Into[left \in Seq(Nat), k \in Nat] ==
            IF k = 0 THEN <<>> ELSE Append(Into[Shr8(left), k - 1], LowByte(left))
    IN  Into[size_arg, LEN_SIZE]

\* a faulty variant of decode_section_size, which takes the bytes from the
\* last to the first
decode_section_size_from_back(encoded_size) ==
    LET From[rest \in Seq(Nat), acc \in Seq(Nat)] ==
            IF rest = <<>> THEN acc
            ELSE From[SubSeq(rest, 1, Len(rest) - 1),
                      AddCarry(Shl8(acc), rest[Len(rest)])]
    IN  From[encoded_size, Usize(0)]

\* decode_section_size: size <<= 8; size += val, over the bytes in order
decode_section_size(encoded_size) ==
    LET From[rest \in Seq(Nat), acc \in Seq(Nat)] ==
            IF rest = <<>> THEN acc
            ELSE From[Tail(rest), AddCarry(Shl8(acc), Head(rest))]
    IN  From[encoded_size, Usize(0)]

\* file.read(&mut buf) on a file at position offset: how many bytes it reads
ReadLen(file, offset, want) == Min(want, Len(file) - offset)

\* the same for a buffer of vec![0u8; decoded_size]: a file is shorter than 2^24
ReadLenUsize(file, offset, want) ==
    IF IsSmall(want) THEN ReadLen(file, offset, ToInt(want)) ELSE Len(file) - offset

\* read_section_sync on a file at position offset:
\* [kind |-> "none"], [kind |-> "err"], or [kind |-> "some", data, pos].
\* Prefix is the read of size_buffer (n bytes, the rest of the buffer keeps
\* its zeros), Payload the read of the buffer of decoded_size bytes (m bytes),
\* Section the two tests and the result; each is a function so that n,
\* decoded_size and m are computed once.
read_section_sync(file, offset) ==
    LET Section[n \in Nat, decoded_size \in Seq(Nat), m \in Nat] ==
            IF n = 0 THEN [kind |-> "none"]
            ELSE IF Usize(m) # decoded_size THEN [kind |-> "err", err |-> "IOError"]
            ELSE [kind |-> "some", data |-> Slice(file, offset + n, offset + n + m),
                  pos |-> offset + n + m]
        Payload[n \in Nat, decoded_size \in Seq(Nat)] ==
            Section[n, decoded_size, ReadLenUsize(file, offset + n, decoded_size)]
        Prefix[n \in Nat] ==
            Payload[n, decode_section_size(Slice(file, offset, offset + n)
                                              \o Zeros(LEN_SIZE - n))]
    IN  Prefix[ReadLen(file, offset, LEN_SIZE)]

\* a faulty variant of write_section_sync, which leaves the length prefix out
write_section_sync_without_size(file, data) == file \o data

\* write_section_sync: the file after the two write_all calls
write_section_sync(file, data) ==
    file \o encode_section_size(Usize(Len(data))) \o data

(***************************************************************************)
(* Tasks: the boxed closures sent through the pool, and their results.     *)
(* The id is the task's place in the order of submission.                  *)
(***************************************************************************)
NoMsg == [id |-> 0]

\* the test's `move || return_with_delay(k, ..)`, or a closure that panics
ReturnTask(k, p) == [id |-> k, op |-> "ret", panics |-> p]

\* `move || aes_encrypt(key, &chunk)`
EncryptTask(k, key, data) == [id |-> k, op |-> "enc", key |-> key, data |-> data]

\* `move || aes_decrypt(key, &section)`
DecryptTask(k, key, data) == [id |-> k, op |-> "dec", key |-> key, data |-> data]

\* The value the k-th closure of the test's list returns.
ReturnValue(k) == 100 + k

\* Whether calling the closure unwinds the worker thread.
TaskPanics(t) ==
    CASE t.op = "ret" -> t.panics
      [] t.op = "enc" -> FALSE
      [] t.op = "dec" -> AesDecryptPanics(t.data)

\* The generator's draws a call of the closure can see.
TaskDraws(t) == IF t.op = "enc" THEN nonce_draws ELSE {0}

\* request(): the closure's return value, tagged with the task it came from.
CallTask(t, r) ==
    [id |-> t.id,
     val |-> CASE t.op = "ret" -> ReturnValue(t.id)
               [] t.op = "enc" -> aes_encrypt(t.key, t.data, r)
               [] t.op = "dec" -> aes_decrypt(t.key, t.data)]

(***************************************************************************)
(* Faulty variants of definitions that follow.  Each differs from the      *)
(* definition it is named after in one place; the properties at the end of *)
(* the module are expected to fail when the variant takes its place.       *)
(***************************************************************************)
\* the collector keeps listening to the same worker
NextResponseIndexStuck(i) == i

\* the collector goes back to the first worker after every response
NextResponseIndexFirst(i) == 0

\* the dispatcher takes an empty queue for a closed one
RequestDisconnectedWhenEmpty == request_chan = <<>>

\* the dispatcher hands every request to the same worker
NextRequestIndexStuck(i) == i

\* the dispatcher stops at the drop of the sender, whatever is still queued
RequestDisconnectedAtDrop == producer = "dropped"

\* the workers never learn that the dispatcher is gone
WorkerRequestNeverDisconnected == FALSE

\* the collector never learns that the receiver is gone
ResponseNeverDisconnected == FALSE

\* a worker that unwound still counts as holding its channel ends
WorkerAliveUnlessReturned(i) == workers[i].pc # "done"

\* the dispatcher's channel ends outlive its thread
DispatcherAliveForever == TRUE

WorkerIds == 0 .. (size - 1)

\* A thread that has returned or unwound has dropped its channel ends.
DispatcherAlive == dispatcher.pc # "done"
CollectorAlive == collector.pc # "done"
WorkerAlive(i) == workers[i].pc \notin {"done", "panicked"}

\* request_receiver.recv() is Err: no sender is left and nothing is buffered
RequestDisconnected == request_chan = <<>> /\ producer # "active"

\* worker_request_receiver.recv() is Err: the dispatcher dropped its senders
WorkerRequestDisconnected == ~DispatcherAlive

\* response_sender.send() is Err: the TaskResponseReceiver was dropped
ResponseDisconnected == consumer = "dropped"

\* the bounds of the two shared channels: sync_channel(size)
RequestCapacity == size
ResponseCapacity == size

(***************************************************************************)
(* task_channel(size): the state right after the threads are spawned.      *)
(***************************************************************************)
PoolInit ==
    /\ request_chan = <<>>
    /\ response_chan = <<>>
    /\ dispatcher = [pc |-> "recv", held |-> NoMsg, request_index |-> 0]
    /\ workers = [i \in WorkerIds |-> [pc |-> "recv", held |-> NoMsg]]
    /\ collector = [pc |-> "recv", held |-> NoMsg, response_index |-> 0]
    /\ ran_by = [k \in 1 .. num_tasks |-> <<>>]

\* the caller holds both halves and has sent nothing
HalvesInit ==
    /\ producer = "active"
    /\ sent = 0
    /\ consumer = "recv"
    /\ received = <<>>

\* no helper function is being called, backup() is not running
NoCall == [fn |-> "none"]
NoBackup == [pc |-> "none"]
NoTaskPool == [pc |-> "none"]
NoUi == [pc |-> "none"]

\* no file is being encrypted
NoFile ==
    /\ impl = "none"
    /\ plaintext = <<>>
    /\ chunk_size = 1
    /\ enc_password = 1
    /\ dec_password = 1
    /\ op = "idle"
    /\ pos = 0
    /\ backup_file = <<>>
    /\ decrypted = <<>>
    /\ reader_result = "running"
    /\ writer_result = "running"
    /\ enc_result = "running"
    /\ dec_result = "running"

Init ==
    /\ size \in 1 .. MaxPool
    /\ num_tasks = MaxTasks
    /\ panics_left = MaxPanics
    /\ nonce_draws = NonceDraws
    /\ HalvesInit
    /\ PoolInit
    /\ NoFile
    /\ call = NoCall
    /\ bk = NoBackup
    /\ tp = NoTaskPool
    /\ ui = NoUi

(***************************************************************************)
(* The dispatcher thread.                                                  *)
(***************************************************************************)
\* request_receiver.recv() returns Ok(request)
DispatcherRecv ==
    /\ dispatcher.pc = "recv"
    /\ request_chan # <<>>
    /\ dispatcher' = [dispatcher EXCEPT !.pc = "send", !.held = Head(request_chan)]
    /\ request_chan' = Tail(request_chan)
    /\ UNCHANGED <<workers, collector, response_chan, ran_by, cfgVars, ui, tp, auxVars, envVars, fileVars>>

\* request_receiver.recv() returns Err: the while-let loop ends
DispatcherRecvErr ==
    /\ dispatcher.pc = "recv"
    /\ RequestDisconnected
    /\ dispatcher' = [dispatcher EXCEPT !.pc = "done"]
    /\ UNCHANGED <<request_chan, workers, collector, response_chan, ran_by,
                   cfgVars, ui, tp, auxVars, envVars, fileVars>>

NextRequestIndex(i) == (i + 1) % size

\* worker_request_senders[request_index].send(request) meets the worker's recv()
DispatcherSend ==
    /\ dispatcher.pc = "send"
    /\ workers[dispatcher.request_index].pc = "recv"
    /\ workers' = [workers EXCEPT ![dispatcher.request_index] =
                      [pc |-> "run", held |-> dispatcher.held]]
    /\ dispatcher' = [pc |-> "recv", held |-> NoMsg,
                      request_index |-> NextRequestIndex(dispatcher.request_index)]
    /\ UNCHANGED <<request_chan, collector, response_chan, ran_by, cfgVars, ui, tp, auxVars, envVars, fileVars>>

\* the send fails because the worker's receiver is gone: break, and the thread's
\* channel ends (and the requests still buffered) are dropped
DispatcherSendErr ==
    /\ dispatcher.pc = "send"
    /\ ~WorkerAlive(dispatcher.request_index)
    /\ dispatcher' = [dispatcher EXCEPT !.pc = "done", !.held = NoMsg]
    /\ request_chan' = <<>>
    /\ UNCHANGED <<workers, collector, response_chan, ran_by, cfgVars, ui, tp, auxVars, envVars, fileVars>>

(***************************************************************************)
(* The worker threads.                                                     *)
(***************************************************************************)
\* worker_request_receiver.recv() returns Err: the while-let loop ends
WorkerRecvErr(i) ==
    /\ workers[i].pc = "recv"
    /\ WorkerRequestDisconnected
    /\ workers' = [workers EXCEPT ![i].pc = "done"]
    /\ UNCHANGED <<request_chan, dispatcher, collector, response_chan, ran_by,
                   cfgVars, ui, tp, auxVars, envVars, fileVars>>

\* let response = request();
WorkerRun(i) ==
    /\ workers[i].pc = "run"
    /\ ran_by' = [ran_by EXCEPT ![workers[i].held.id] = Append(@, i)]
    /\ \E r \in TaskDraws(workers[i].held) :
          workers' = [workers EXCEPT ![i] =
                         IF TaskPanics(workers[i].held)
                         THEN [pc |-> "panicked", held |-> workers[i].held]
                         ELSE [pc |-> "send", held |-> CallTask(workers[i].held, r)]]
    /\ UNCHANGED <<request_chan, dispatcher, collector, response_chan,
                   cfgVars, ui, tp, auxVars, envVars, fileVars>>

\* worker_response_sender.send(response) fails: the collector has exited
WorkerSendErr(i) ==
    /\ workers[i].pc = "send"
    /\ ~CollectorAlive
    /\ workers' = [workers EXCEPT ![i] = [pc |-> "done", held |-> NoMsg]]
    /\ UNCHANGED <<request_chan, dispatcher, collector, response_chan, ran_by,
                   cfgVars, ui, tp, auxVars, envVars, fileVars>>

(***************************************************************************)
(* The collector thread.                                                   *)
(***************************************************************************)
NextResponseIndex(i) == (i + 1) % size

\* worker_response_receivers[response_index].recv() meets the worker's send()
CollectorRecv ==
    /\ collector.pc = "recv"
    /\ workers[collector.response_index].pc = "send"
    /\ collector' = [collector EXCEPT !.pc = "send",
                                      !.held = workers[collector.response_index].held]
    /\ workers' = [workers EXCEPT ![collector.response_index] =
                      [pc |-> "recv", held |-> NoMsg]]
    /\ UNCHANGED <<request_chan, dispatcher, response_chan, ran_by, cfgVars, ui, tp, auxVars, envVars, fileVars>>

\* the recv() returns Err: that worker's sender is gone
CollectorRecvErr ==
    /\ collector.pc = "recv"
    /\ ~WorkerAlive(collector.response_index)
    /\ collector' = [collector EXCEPT !.pc = "done"]
    /\ UNCHANGED <<request_chan, dispatcher, workers, response_chan, ran_by,
                   cfgVars, ui, tp, auxVars, envVars, fileVars>>

\* response_sender.send(response) returns Ok: there is room in the buffer
CollectorSend ==
    /\ collector.pc = "send"
    /\ ~ResponseDisconnected
    /\ Len(response_chan) < ResponseCapacity
    /\ response_chan' = Append(response_chan, collector.held)
    /\ collector' = [pc |-> "recv", held |-> NoMsg,
                     response_index |-> NextResponseIndex(collector.response_index)]
    /\ UNCHANGED <<request_chan, dispatcher, workers, ran_by, cfgVars, ui, tp, auxVars, envVars, fileVars>>

\* response_sender.send(response) returns Err: the receiver is gone
CollectorSendErr ==
    /\ collector.pc = "send"
    /\ ResponseDisconnected
    /\ collector' = [collector EXCEPT !.pc = "done", !.held = NoMsg]
    /\ UNCHANGED <<request_chan, dispatcher, workers, response_chan, ran_by,
                   cfgVars, ui, tp, auxVars, envVars, fileVars>>

PoolNext ==
    \/ DispatcherRecv
    \/ DispatcherRecvErr
    \/ DispatcherSend
    \/ DispatcherSendErr
    \/ \E i \in WorkerIds : WorkerRecvErr(i)
    \/ \E i \in WorkerIds : WorkerRun(i)
    \/ \E i \in WorkerIds : WorkerSendErr(i)
    \/ CollectorRecv
    \/ CollectorRecvErr
    \/ CollectorSend
    \/ CollectorSendErr

(***************************************************************************)
(* The two halves of the channel, as a caller (the pool's test) uses them. *)
(***************************************************************************)
\* a faulty variant of CanSend: send() does not notice that the dispatcher (and
\* with it the receiver of the requests) is gone
CanSendWhenRoom == Len(request_chan) < RequestCapacity

\* the request can be put in the buffer: the receiver is there and there is room
CanSend == DispatcherAlive /\ Len(request_chan) < RequestCapacity

\* TaskRequestSender::send returns Ok(())
Send ==
    /\ producer = "active"
    /\ sent < num_tasks
    /\ CanSend
    /\ \E p \in BOOLEAN :
          /\ p => panics_left > 0
          /\ panics_left' = IF p THEN panics_left - 1 ELSE panics_left
          /\ request_chan' = Append(request_chan, ReturnTask(sent + 1, p))
    /\ sent' = sent + 1
    /\ UNCHANGED <<producer, consumer, received, dispatcher, workers, collector,
                   response_chan, ran_by, cfgVars, ui, tp, auxVars, fileVars>>

\* TaskRequestSender::send returns Err: the dispatcher has dropped the receiver
SendErr ==
    /\ producer = "active"
    /\ sent < num_tasks
    /\ ~DispatcherAlive
    /\ producer' = "failed"
    /\ UNCHANGED <<sent, panics_left, consumer, received, cfgVars, ui, tp, auxVars, poolVars, fileVars>>

\* the TaskRequestSender is dropped
DropSender ==
    /\ producer = "active"
    /\ producer' = "dropped"
    /\ UNCHANGED <<sent, panics_left, consumer, received, cfgVars, ui, tp, auxVars, poolVars, fileVars>>

\* TaskResponseReceiver::recv returns Some(response)
Recv ==
    /\ consumer = "recv"
    /\ response_chan # <<>>
    /\ received' = Append(received, Head(response_chan))
    /\ response_chan' = Tail(response_chan)
    /\ UNCHANGED <<producer, sent, panics_left, consumer, request_chan, dispatcher,
                   workers, collector, ran_by, cfgVars, ui, tp, auxVars, fileVars>>

\* TaskResponseReceiver::recv returns None: the collector has dropped the sender
\* and the buffer is empty
RecvNone ==
    /\ consumer = "recv"
    /\ response_chan = <<>>
    /\ ~CollectorAlive
    /\ consumer' = "none"
    /\ UNCHANGED <<producer, sent, panics_left, received, cfgVars, ui, tp, auxVars, poolVars, fileVars>>

\* the TaskResponseReceiver is dropped, and with it the responses still buffered
DropReceiver ==
    /\ consumer \in {"recv", "none"}
    /\ consumer' = "dropped"
    /\ response_chan' = <<>>
    /\ UNCHANGED <<producer, sent, panics_left, received, request_chan, dispatcher,
                   workers, collector, ran_by, cfgVars, ui, tp, auxVars, fileVars>>

Next ==
    \/ PoolNext
    \/ Send
    \/ SendErr
    \/ DropSender
    \/ Recv
    \/ RecvNone
    \/ DropReceiver

Spec == Init /\ [][Next]_vars

\* Every step but the caller's free choice to drop a half of the channel: a
\* runnable thread is scheduled, a producer with tasks left keeps calling
\* send(), a consumer that has not seen None keeps calling recv().
Progress ==
    \/ PoolNext
    \/ Send
    \/ SendErr
    \/ Recv
    \/ RecvNone

FairSpec == Spec /\ WF_vars(Progress)

(***************************************************************************)
(* Encrypting a file and decrypting the result.                            *)
(***************************************************************************)
\* the source files: for each length, bytes that differ from place to place
Plaintexts == {[i \in 1 .. n |-> (250 + 3 * i) % 256] : n \in 0 .. MaxLen}

EncKey == password_to_key(enc_password)
DecKey == password_to_key(dec_password)

\* the next chunk src.read(&mut buffer) gives
NextChunk == Slice(plaintext, pos, pos + ReadLen(plaintext, pos, chunk_size))

FileInit ==
    /\ impl \in {"sync", "pool"}
    /\ size \in (IF impl = "sync" THEN {1} ELSE 1 .. MaxPool)
    /\ plaintext \in Plaintexts
    /\ chunk_size \in ChunkSizes
    /\ enc_password \in Passwords
    /\ dec_password \in Passwords
    /\ num_tasks = MaxLen
    /\ panics_left = 0
    /\ nonce_draws = NonceDraws
    /\ call = NoCall
    /\ bk = NoBackup
    /\ tp = NoTaskPool
    /\ ui = NoUi
    /\ op = "encrypt"
    /\ pos = 0
    /\ backup_file = <<>>
    /\ decrypted = <<>>
    /\ reader_result = "running"
    /\ writer_result = "running"
    /\ enc_result = "running"
    /\ dec_result = "running"
    /\ HalvesInit
    /\ PoolInit

\* ---- src/backup_crypto.rs: the loops of encrypt_file_sync and decrypt_file_sync

\* one turn of encrypt_file_sync's loop, or its end (rewind, flush, Ok)
EncryptFileSync ==
    /\ impl = "sync"
    /\ op = "encrypt"
    /\ enc_result = "running"
    /\ IF ReadLen(plaintext, pos, chunk_size) = 0
       THEN /\ enc_result' = "Ok"
            /\ UNCHANGED <<pos, backup_file>>
       ELSE /\ \E r \in nonce_draws :
                  backup_file' = write_section_sync(backup_file,
                                                    aes_encrypt(EncKey, NextChunk, r).data)
            /\ pos' = pos + Len(NextChunk)
            /\ UNCHANGED enc_result
    /\ UNCHANGED <<impl, plaintext, chunk_size, enc_password, dec_password, op,
                   decrypted, reader_result, writer_result, dec_result,
                   cfgVars, ui, tp, auxVars, envVars, poolVars>>

\* what one turn of decrypt_file_sync's loop does with the section it read
DecryptSection(section) ==
    IF section.kind = "none" THEN [result |-> "Ok", write |-> <<>>, pos |-> pos]
    ELSE IF section.kind = "err" THEN [result |-> section.err, write |-> <<>>, pos |-> pos]
    ELSE IF AesDecryptPanics(section.data)
         THEN [result |-> "panic", write |-> <<>>, pos |-> section.pos]
    ELSE LET decrypted_data == aes_decrypt(DecKey, section.data)
         IN  IF decrypted_data.ok
             THEN [result |-> "running", write |-> decrypted_data.data, pos |-> section.pos]
             ELSE [result |-> decrypted_data.err, write |-> <<>>, pos |-> section.pos]

\* one turn of decrypt_file_sync's loop, or its end
DecryptFileSync ==
    /\ impl = "sync"
    /\ op = "decrypt"
    /\ dec_result = "running"
    /\ \E section \in {read_section_sync(backup_file, pos)} :
       \E turn \in {DecryptSection(section)} :
           /\ dec_result' = turn.result
           /\ decrypted' = decrypted \o turn.write
           /\ pos' = turn.pos
    /\ UNCHANGED <<impl, plaintext, chunk_size, enc_password, dec_password, op,
                   backup_file, reader_result, writer_result, enc_result,
                   cfgVars, ui, tp, auxVars, envVars, poolVars>>

\* ---- the pooled pipeline: a reader thread feeding the pool and a writer
\* ---- thread draining it, joined before the function returns

\* the task the reader submits next and the position after reading it, as a
\* sequence: empty at the end of the file or when the read fails
ReaderNext ==
    IF op = "encrypt"
    THEN IF ReadLen(plaintext, pos, chunk_size) = 0 THEN <<>>
         ELSE <<[task |-> EncryptTask(sent + 1, EncKey, NextChunk),
                 pos |-> pos + Len(NextChunk)]>>
    ELSE LET section == read_section_sync(backup_file, pos)
         IN  IF section.kind # "some" THEN <<>>
             ELSE <<[task |-> DecryptTask(sent + 1, DecKey, section.data),
                     pos |-> section.pos]>>

\* how the reader's loop ends when there is nothing more to submit
ReaderEnd ==
    IF op = "decrypt" /\ read_section_sync(backup_file, pos).kind = "err"
    THEN "IOError" ELSE "Ok"

ReaderRunning ==
    /\ impl = "pool"
    /\ op \in {"encrypt", "decrypt"}
    /\ reader_result = "running"

\* the reader reads a chunk (a section) and send() accepts the task
ReaderSubmit ==
    /\ ReaderRunning
    /\ CanSend
    /\ \E next \in {ReaderNext} :
          /\ next # <<>>
          /\ request_chan' = Append(request_chan, next[1].task)
          /\ pos' = next[1].pos
    /\ sent' = sent + 1
    /\ UNCHANGED <<producer, panics_left, consumer, received, dispatcher, workers,
                   collector, response_chan, ran_by, cfgVars, ui, tp, auxVars,
                   impl, plaintext, chunk_size, enc_password, dec_password, op,
                   backup_file, decrypted, reader_result, writer_result,
                   enc_result, dec_result>>

\* send() returns Err: the reader breaks out of its loop cleanly
ReaderSendErr ==
    /\ ReaderRunning
    /\ ReaderNext # <<>>
    /\ ~DispatcherAlive
    /\ producer' = "failed"
    /\ reader_result' = "Ok"
    /\ UNCHANGED <<sent, panics_left, consumer, received, cfgVars, ui, tp, auxVars, poolVars,
                   impl, plaintext, chunk_size, enc_password, dec_password, op, pos,
                   backup_file, decrypted, writer_result, enc_result, dec_result>>

\* the read gives nothing more (or fails): the reader returns and its
\* TaskRequestSender is dropped
ReaderFinish ==
    /\ ReaderRunning
    /\ ReaderNext = <<>>
    /\ producer' = "dropped"
    /\ reader_result' = ReaderEnd
    /\ UNCHANGED <<sent, panics_left, consumer, received, cfgVars, ui, tp, auxVars, poolVars,
                   impl, plaintext, chunk_size, enc_password, dec_password, op, pos,
                   backup_file, decrypted, writer_result, enc_result, dec_result>>

WriterRunning ==
    /\ impl = "pool"
    /\ op \in {"encrypt", "decrypt"}
    /\ writer_result = "running"

\* the destination after the writer has written one Ok result
WriterWrite(file, data) ==
    IF op = "encrypt" THEN write_section_sync(file, data) ELSE file \o data

\* recv() returns Some(Ok(data)): the writer writes it to the destination
WriterRecvOk ==
    /\ WriterRunning
    /\ consumer = "recv"
    /\ response_chan # <<>>
    /\ Head(response_chan).val.ok
    /\ received' = Append(received, Head(response_chan))
    /\ response_chan' = Tail(response_chan)
    /\ IF op = "encrypt"
       THEN /\ backup_file' = WriterWrite(backup_file, Head(response_chan).val.data)
            /\ UNCHANGED decrypted
       ELSE /\ decrypted' = WriterWrite(decrypted, Head(response_chan).val.data)
            /\ UNCHANGED backup_file
    /\ UNCHANGED <<producer, sent, panics_left, consumer, request_chan, dispatcher,
                   workers, collector, ran_by, cfgVars, ui, tp, auxVars,
                   impl, plaintext, chunk_size, enc_password, dec_password, op, pos,
                   reader_result, writer_result, enc_result, dec_result>>

\* recv() returns Some(Err(e)): the writer returns e and its
\* TaskResponseReceiver is dropped
WriterRecvErr ==
    /\ WriterRunning
    /\ consumer = "recv"
    /\ response_chan # <<>>
    /\ ~Head(response_chan).val.ok
    /\ received' = Append(received, Head(response_chan))
    /\ response_chan' = <<>>
    /\ consumer' = "dropped"
    /\ writer_result' = Head(response_chan).val.err
    /\ UNCHANGED <<producer, sent, panics_left, request_chan, dispatcher,
                   workers, collector, ran_by, cfgVars, ui, tp, auxVars,
                   impl, plaintext, chunk_size, enc_password, dec_password, op, pos,
                   backup_file, decrypted, reader_result, enc_result, dec_result>>

\* recv() returns None: the writer returns Ok
WriterRecvNone ==
    /\ WriterRunning
    /\ consumer = "recv"
    /\ response_chan = <<>>
    /\ ~CollectorAlive
    /\ consumer' = "none"
    /\ writer_result' = "Ok"
    /\ UNCHANGED <<producer, sent, panics_left, received, cfgVars, ui, tp, auxVars, poolVars,
                   impl, plaintext, chunk_size, enc_password, dec_password, op, pos,
                   backup_file, decrypted, reader_result, enc_result, dec_result>>

\* the result of the scope once both threads are joined: the first error
JoinResult == IF reader_result # "Ok" THEN reader_result ELSE writer_result

\* both threads are joined and encrypt (decrypt) returns
PipelineReturn ==
    /\ impl = "pool"
    /\ reader_result # "running"
    /\ writer_result # "running"
    /\ \/ /\ op = "encrypt"
          /\ enc_result = "running"
          /\ enc_result' = JoinResult
          /\ UNCHANGED dec_result
       \/ /\ op = "decrypt"
          /\ dec_result = "running"
          /\ dec_result' = JoinResult
          /\ UNCHANGED enc_result
    /\ UNCHANGED <<impl, plaintext, chunk_size, enc_password, dec_password, op, pos,
                   backup_file, decrypted, reader_result, writer_result,
                   cfgVars, ui, tp, auxVars, envVars, poolVars>>

\* the backup file that encrypt wrote is decrypted, with a pool of its own
StartDecrypt ==
    /\ op = "encrypt"
    /\ enc_result = "Ok"
    /\ op' = "decrypt"
    /\ pos' = 0
    /\ reader_result' = "running"
    /\ writer_result' = "running"
    /\ producer' = "active"
    /\ sent' = 0
    /\ consumer' = "recv"
    /\ received' = <<>>
    /\ request_chan' = <<>>
    /\ response_chan' = <<>>
    /\ dispatcher' = [pc |-> "recv", held |-> NoMsg, request_index |-> 0]
    /\ workers' = [i \in WorkerIds |-> [pc |-> "recv", held |-> NoMsg]]
    /\ collector' = [pc |-> "recv", held |-> NoMsg, response_index |-> 0]
    /\ ran_by' = [k \in 1 .. num_tasks |-> <<>>]
    /\ UNCHANGED <<impl, plaintext, chunk_size, enc_password, dec_password,
                   backup_file, decrypted, enc_result, dec_result,
                   panics_left, cfgVars, ui, tp, auxVars>>

FileNext ==
    \/ PoolNext
    \/ EncryptFileSync
    \/ DecryptFileSync
    \/ ReaderSubmit
    \/ ReaderSendErr
    \/ ReaderFinish
    \/ WriterRecvOk
    \/ WriterRecvErr
    \/ WriterRecvNone
    \/ PipelineReturn
    \/ StartDecrypt

FileSpec == FileInit /\ [][FileNext]_vars

(***************************************************************************)
(* The same runs with I/O errors in the pipeline's threads, and with a     *)
(* backup file that was cut short before it is decrypted.                  *)
(***************************************************************************)
FaultInit ==
    /\ impl \in {"sync", "pool"}
    /\ size \in (IF impl = "sync" THEN {1} ELSE 1 .. MaxPool)
    /\ plaintext \in {p \in Plaintexts : Len(p) <= MaxFaultLen}
    /\ chunk_size \in ChunkSizes
    /\ enc_password \in Passwords
    /\ dec_password \in Passwords
    /\ num_tasks = MaxFaultLen
    /\ panics_left = 0
    /\ nonce_draws = {0}
    /\ call = NoCall
    /\ bk = NoBackup
    /\ tp = NoTaskPool
    /\ ui = NoUi
    /\ op = "encrypt"
    /\ pos = 0
    /\ backup_file = <<>>
    /\ decrypted = <<>>
    /\ reader_result = "running"
    /\ writer_result = "running"
    /\ enc_result = "running"
    /\ dec_result = "running"
    /\ HalvesInit
    /\ PoolInit

\* the reader's read of its source fails: it returns the error and its
\* TaskRequestSender is dropped
ReaderReadErr ==
    /\ ReaderRunning
    /\ producer' = "dropped"
    /\ reader_result' = "IOError"
    /\ UNCHANGED <<sent, panics_left, consumer, received, cfgVars, ui, tp, auxVars, poolVars,
                   impl, plaintext, chunk_size, enc_password, dec_password, op, pos,
                   backup_file, decrypted, writer_result, enc_result, dec_result>>

\* recv() returns Some(Ok(data)) and the write to the destination fails: the
\* writer returns the error and its TaskResponseReceiver is dropped
WriterWriteErr ==
    /\ WriterRunning
    /\ consumer = "recv"
    /\ response_chan # <<>>
    /\ Head(response_chan).val.ok
    /\ received' = Append(received, Head(response_chan))
    /\ response_chan' = <<>>
    /\ consumer' = "dropped"
    /\ writer_result' = "IOError"
    /\ UNCHANGED <<producer, sent, panics_left, request_chan, dispatcher,
                   workers, collector, ran_by, cfgVars, ui, tp, auxVars,
                   impl, plaintext, chunk_size, enc_password, dec_password, op, pos,
                   backup_file, decrypted, reader_result, enc_result, dec_result>>

\* the backup file that encrypt wrote loses its end, and what is left of it is
\* decrypted
StartDecryptTruncated ==
    /\ op = "encrypt"
    /\ enc_result = "Ok"
    /\ Len(plaintext) <= MaxTruncLen
    /\ \E cut \in 0 .. (Len(backup_file) - 1) : backup_file' = Slice(backup_file, 0, cut)
    /\ op' = "decrypt"
    /\ pos' = 0
    /\ reader_result' = "running"
    /\ writer_result' = "running"
    /\ producer' = "active"
    /\ sent' = 0
    /\ consumer' = "recv"
    /\ received' = <<>>
    /\ request_chan' = <<>>
    /\ response_chan' = <<>>
    /\ dispatcher' = [pc |-> "recv", held |-> NoMsg, request_index |-> 0]
    /\ workers' = [i \in WorkerIds |-> [pc |-> "recv", held |-> NoMsg]]
    /\ collector' = [pc |-> "recv", held |-> NoMsg, response_index |-> 0]
    /\ ran_by' = [k \in 1 .. num_tasks |-> <<>>]
    /\ UNCHANGED <<impl, plaintext, chunk_size, enc_password, dec_password,
                   decrypted, enc_result, dec_result, panics_left, cfgVars, ui, tp, auxVars>>

FaultNext ==
    \/ FileNext
    \/ ReaderReadErr
    \/ WriterWriteErr
    \/ StartDecryptTruncated

\* Every step of a thread that can run: the threads of the pool, the reader,
\* the writer, the join, the sequential loops.  Not the faults, and not the
\* caller's choice to decrypt.
PipelineProgress ==
    \/ PoolNext
    \/ EncryptFileSync
    \/ DecryptFileSync
    \/ ReaderSubmit
    \/ ReaderSendErr
    \/ ReaderFinish
    \/ WriterRecvOk
    \/ WriterRecvErr
    \/ WriterRecvNone
    \/ PipelineReturn

FaultSpec == FaultInit /\ [][FaultNext]_vars /\ WF_vars(PipelineProgress)

(***************************************************************************)
(* The pipelines with the writer's recv() and its write as two steps, on a *)
(* source long enough to fill the pool: between the two the writer holds   *)
(* the result it received.                                                 *)
(***************************************************************************)
\* the length of the source file of these runs
MaxBufLen == 10

BufInit ==
    /\ impl = "pool"
    /\ size \in 1 .. MaxPool
    /\ plaintext = [i \in 1 .. MaxBufLen |-> (250 + 3 * i) % 256]
    /\ chunk_size = 1
    /\ enc_password \in Passwords
    /\ dec_password \in Passwords
    /\ num_tasks = MaxBufLen
    /\ panics_left = 0
    /\ nonce_draws = {0}
    /\ call = NoCall
    /\ bk = NoBackup
    /\ tp = NoTaskPool
    /\ ui = NoUi
    /\ op = "encrypt"
    /\ pos = 0
    /\ backup_file = <<>>
    /\ decrypted = <<>>
    /\ reader_result = "running"
    /\ writer_result = "running"
    /\ enc_result = "running"
    /\ dec_result = "running"
    /\ HalvesInit
    /\ PoolInit

\* recv() returns Some(Ok(data)): the writer now owns the result
WriterTake ==
    /\ WriterRunning
    /\ consumer = "recv"
    /\ response_chan # <<>>
    /\ Head(response_chan).val.ok
    /\ received' = Append(received, Head(response_chan))
    /\ response_chan' = Tail(response_chan)
    /\ consumer' = "write"
    /\ UNCHANGED <<producer, sent, panics_left, request_chan, dispatcher,
                   workers, collector, ran_by, cfgVars, ui, tp, auxVars, fileVars>>

\* the writer writes the result it holds to the destination and drops it
WriterPut ==
    /\ WriterRunning
    /\ consumer = "write"
    /\ IF op = "encrypt"
       THEN /\ backup_file' = WriterWrite(backup_file, received[Len(received)].val.data)
            /\ UNCHANGED decrypted
       ELSE /\ decrypted' = WriterWrite(decrypted, received[Len(received)].val.data)
            /\ UNCHANGED backup_file
    /\ consumer' = "recv"
    /\ UNCHANGED <<producer, sent, panics_left, received, cfgVars, ui, tp, auxVars, poolVars,
                   impl, plaintext, chunk_size, enc_password, dec_password, op, pos,
                   reader_result, writer_result, enc_result, dec_result>>

BufNext ==
    \/ PoolNext
    \/ ReaderSubmit
    \/ ReaderSendErr
    \/ ReaderFinish
    \/ WriterTake
    \/ WriterPut
    \/ WriterRecvErr
    \/ WriterRecvNone
    \/ PipelineReturn
    \/ StartDecrypt

BufSpec == BufInit /\ [][BufNext]_vars

(***************************************************************************)
(* backup_crypto.rs: encrypt_file_sync and decrypt_file_sync as functions  *)
(* of the whole file.                                                      *)
(***************************************************************************)
\* a faulty variant of encrypt_file_sync, which draws one nonce for the file
encrypt_file_sync_one_draw(src, key, chunk, draws) ==
    LET Loop[p \in Nat, k \in Nat, dest \in Seq(Nat)] ==
            LET n == ReadLen(src, p, chunk)
            IN  IF n = 0 THEN dest
                ELSE Loop[p + n, k + 1,
                          write_section_sync(dest,
                              aes_encrypt(key, Slice(src, p, p + n), draws[1]).data)]
    IN  Loop[0, 1, <<>>]

\* encrypt_file_sync(src, dest, key, chunk_size) on an empty dest: the bytes of
\* dest at the end; draws[k] is the generator's draw for the k-th chunk
encrypt_file_sync(src, key, chunk, draws) ==
    LET Loop[p \in Nat, k \in Nat, dest \in Seq(Nat)] ==
            LET n == ReadLen(src, p, chunk)
            IN  IF n = 0 THEN dest
                ELSE Loop[p + n, k + 1,
                          write_section_sync(dest,
                              aes_encrypt(key, Slice(src, p, p + n), draws[k]).data)]
    IN  Loop[0, 1, <<>>]

\* a faulty variant of decrypt_file_sync, which goes on to the next section
\* when one does not decrypt
decrypt_file_sync_skipping(src, key) ==
    LET Loop[p \in Nat, k \in Nat, dest \in Seq(Nat)] ==
            LET section == read_section_sync(src, p)
            IN  IF section.kind = "none"
                THEN [result |-> "Ok", dest |-> dest, sections |-> k]
                ELSE IF section.kind = "err"
                THEN [result |-> section.err, dest |-> dest, sections |-> k]
                ELSE IF AesDecryptPanics(section.data)
                THEN [result |-> "panic", dest |-> dest, sections |-> k]
                ELSE LET decrypted_data == aes_decrypt(key, section.data)
                     IN  IF decrypted_data.ok
                         THEN Loop[section.pos, k + 1, dest \o decrypted_data.data]
                         ELSE Loop[section.pos, k, dest]
    IN  Loop[0, 0, <<>>]

\* a faulty variant of decrypt_file_sync, which refuses a section it has
\* already seen in the file
decrypt_file_sync_once_each(src, key) ==
    LET Loop[p \in Nat, k \in Nat, dest \in Seq(Nat), seen \in SUBSET Seq(Nat)] ==
            LET section == read_section_sync(src, p)
            IN  IF section.kind = "none"
                THEN [result |-> "Ok", dest |-> dest, sections |-> k]
                ELSE IF section.kind = "err"
                THEN [result |-> section.err, dest |-> dest, sections |-> k]
                ELSE IF AesDecryptPanics(section.data)
                THEN [result |-> "panic", dest |-> dest, sections |-> k]
                ELSE LET decrypted_data == aes_decrypt(key, section.data)
                     IN  IF decrypted_data.ok /\ section.data \notin seen
                         THEN Loop[section.pos, k + 1, dest \o decrypted_data.data,
                                   seen \cup {section.data}]
                         ELSE [result |-> "CryptoError", dest |-> dest, sections |-> k]
    IN  Loop[0, 0, <<>>, {}]

\* decrypt_file_sync(src, dest, key) on an empty dest: how the call ends, the
\* bytes of dest at that point and the number of sections written
decrypt_file_sync(src, key) ==
    LET Loop[p \in Nat, k \in Nat, dest \in Seq(Nat)] ==
            LET section == read_section_sync(src, p)
            IN  IF section.kind = "none"
                THEN [result |-> "Ok", dest |-> dest, sections |-> k]
                ELSE IF section.kind = "err"
                THEN [result |-> section.err, dest |-> dest, sections |-> k]
                ELSE IF AesDecryptPanics(section.data)
                THEN [result |-> "panic", dest |-> dest, sections |-> k]
                ELSE LET decrypted_data == aes_decrypt(key, section.data)
                     IN  IF decrypted_data.ok
                         THEN Loop[section.pos, k + 1, dest \o decrypted_data.data]
                         ELSE [result |-> decrypted_data.err, dest |-> dest,
                               sections |-> k]
    IN  Loop[0, 0, <<>>]

\* the sections of a backup file, as read_section_sync returns them one
\* after the other up to the end of the file or the first error
SectionsOf(file) ==
    LET Loop[p \in Nat] ==
            LET section == read_section_sync(file, p)
            IN  IF section.kind = "some" THEN <<section.data>> \o Loop[section.pos]
                ELSE <<>>
    IN  Loop[0]

\* the file made of the given sections: write_section_sync for each in turn
WriteSections(blobs) ==
    LET Written[n \in Nat] ==
            IF n = 0 THEN <<>> ELSE write_section_sync(Written[n - 1], blobs[n])
    IN  Written[Len(blobs)]

\* a section whose last byte, in the tag, was changed
TamperTag(blob) == [blob EXCEPT ![Len(blob)] = (@ + 1) % 256]

\* the nonce a section carries: aes_encrypt puts it in front of the ciphertext
SectionNonce(section) == Slice(section, 0, AES_NONCE_SIZE)

(***************************************************************************)
(* Calls of the helper functions on their own, as the unit tests make      *)
(* them: the section codec, read_section_sync on a file, aes_decrypt on a  *)
(* blob.                                                                   *)
(***************************************************************************)
\* the bytes the inputs of the codec are made of
CodecBytes == {0, 1, 255}

\* five-byte length prefixes
PrefixInputs == [1 .. LEN_SIZE -> CodecBytes]

\* sizes: below 2^40 when the bytes above the fifth are 0, beyond it otherwise
UsizeInputs == {low \o <<high>> \o Zeros(USIZE_BYTES - LEN_SIZE - 1) :
                   low \in PrefixInputs, high \in {0, 1}}

\* the longest file read_section_sync is called on, and the files: a prefix
\* that declares 0 or 2 bytes, whole or cut short, and what follows it
MaxSectionFile == 7
SectionFiles == UNION {[1 .. n -> {0, 2}] : n \in 0 .. MaxSectionFile}

\* the blobs aes_decrypt is called on: what aes_encrypt gave for a short
\* plaintext, that blob cut short at every length, and with its last byte (in
\* the tag) or its first (in the nonce) changed
SealedBlobs ==
    {aes_encrypt(password_to_key(p), msg, 0).data :
        p \in Passwords, msg \in {m \in Plaintexts : Len(m) <= 2}}
Blobs ==
    UNION {{Slice(b, 0, n) : n \in 0 .. Len(b)}
               \cup {[b EXCEPT ![Len(b)] = (@ + 1) % 256], [b EXCEPT ![1] = (@ + 1) % 256]} :
           b \in SealedBlobs}

CallInit ==
    /\ size = 1
    /\ num_tasks = 0
    /\ panics_left = 0
    /\ nonce_draws = {0}
    /\ HalvesInit
    /\ PoolInit
    /\ NoFile
    /\ call = NoCall
    /\ bk = NoBackup
    /\ tp = NoTaskPool
    /\ ui = NoUi

\* test_encode_section_size: encode_section_size(n), and the result decoded
CallEncode ==
    /\ call = NoCall
    /\ \E n \in UsizeInputs :
          \E encoded \in {encode_section_size(n)} :
              call' = [fn |-> "encode_section_size", arg |-> n, ret |-> encoded,
                       back |-> decode_section_size(encoded)]
    /\ UNCHANGED <<cfgVars, ui, tp, envVars, poolVars, fileVars, bk>>

\* test_decode_section_size: decode_section_size(b), and the result encoded
CallDecode ==
    /\ call = NoCall
    /\ \E b \in PrefixInputs :
          \E decoded \in {decode_section_size(b)} :
              call' = [fn |-> "decode_section_size", arg |-> b, ret |-> decoded,
                       back |-> encode_section_size(decoded)]
    /\ UNCHANGED <<cfgVars, ui, tp, envVars, poolVars, fileVars, bk>>

\* read_section_sync on a file that was just opened
CallReadSection ==
    /\ call = NoCall
    /\ \E file \in SectionFiles :
          call' = [fn |-> "read_section_sync", arg |-> file,
                   ret |-> read_section_sync(file, 0)]
    /\ UNCHANGED <<cfgVars, ui, tp, envVars, poolVars, fileVars, bk>>

\* aes_decrypt(key, blob): the call unwinds, or returns Ok or Err
CallAesDecrypt ==
    /\ call = NoCall
    /\ \E p \in Passwords, blob \in Blobs :
          call' = [fn |-> "aes_decrypt", arg |-> [key |-> password_to_key(p), blob |-> blob],
                   ret |-> IF AesDecryptPanics(blob) THEN [ok |-> FALSE, err |-> "panic"]
                           ELSE aes_decrypt(password_to_key(p), blob)]
    /\ UNCHANGED <<cfgVars, ui, tp, envVars, poolVars, fileVars, bk>>

\* backup_chunk_size(src): the decoded value of the first 5-byte length prefix
\* of the file, an error when the file has fewer than 5 bytes
backup_chunk_size(file) ==
    IF Len(file) < LEN_SIZE THEN [ok |-> FALSE, err |-> "IOError"]
    ELSE [ok |-> TRUE, size |-> decode_section_size(Slice(file, 0, LEN_SIZE))]

\* backup_chunk_size on the first `cut` bytes of a backup file that
\* encrypt_file_sync wrote; back is the result on its first 5 bytes alone
CallBackupChunkSize ==
    /\ call = NoCall
    /\ \E src \in Plaintexts, p \in Passwords, c \in ChunkSizes :
       \E file \in {encrypt_file_sync(src, password_to_key(p), c,
                                      [k \in 1 .. MaxLen |-> k % 2])} :
       \E cut \in 0 .. Len(file) :
          call' = [fn |-> "backup_chunk_size",
                   arg |-> [src |-> src, chunk_size |-> c, file |-> file, cut |-> cut],
                   ret |-> backup_chunk_size(Slice(file, 0, cut)),
                   back |-> backup_chunk_size(Slice(file, 0, Min(cut, LEN_SIZE)))]
    /\ UNCHANGED <<cfgVars, ui, tp, envVars, poolVars, fileVars, bk>>

\* encrypt_file_sync on a source, with the values the generator gives to the
\* successive calls of aes_encrypt
CallEncryptFile ==
    /\ call = NoCall
    /\ \E src \in Plaintexts, p \in Passwords, c \in ChunkSizes,
          draws \in [1 .. MaxLen -> NonceDraws] :
          call' = [fn |-> "encrypt_file_sync",
                   arg |-> [src |-> src, key |-> password_to_key(p), chunk_size |-> c,
                            draws |-> draws],
                   ret |-> encrypt_file_sync(src, password_to_key(p), c, draws)]
    /\ UNCHANGED <<cfgVars, ui, tp, envVars, poolVars, fileVars, bk>>

\* decrypt_file_sync, with the key it was encrypted with, on a backup file in
\* which the tags of some sections (at least one) were changed
CallDecryptTampered ==
    /\ call = NoCall
    /\ \E src \in Plaintexts \ {<<>>}, p \in Passwords, c \in ChunkSizes :
       \E sections \in {SectionsOf(encrypt_file_sync(src, password_to_key(p), c,
                                                     [k \in 1 .. MaxLen |-> k % 2]))} :
       \E tampered \in SUBSET (DOMAIN sections) \ {{}} :
       \E file \in {WriteSections([k \in DOMAIN sections |->
                                      IF k \in tampered THEN TamperTag(sections[k])
                                      ELSE sections[k]])} :
          call' = [fn |-> "decrypt_file_sync",
                   arg |-> [src |-> src, chunk_size |-> c, key |-> password_to_key(p),
                            file |-> file, tampered |-> tampered],
                   ret |-> decrypt_file_sync(file, password_to_key(p))]
    /\ UNCHANGED <<cfgVars, ui, tp, envVars, poolVars, fileVars, bk>>

\* the most sections a rearranged backup file is made of
MaxRearranged == 3

\* decrypt_file_sync, with the key it was encrypted with, on a file made of
\* whole sections of a backup file: order[j] is the section of the backup
\* that comes j-th in the file, so that sections can be left out, repeated
\* and put in another order
CallDecryptRearranged ==
    /\ call = NoCall
    /\ \E src \in Plaintexts, p \in Passwords, c \in ChunkSizes :
       \E sections \in {SectionsOf(encrypt_file_sync(src, password_to_key(p), c,
                                                     [k \in 1 .. MaxLen |-> k % 2]))} :
       \E n \in 0 .. MaxRearranged :
       \E order \in [1 .. n -> DOMAIN sections] :
          call' = [fn |-> "decrypt_file_sync",
                   arg |-> [src |-> src, chunk_size |-> c, key |-> password_to_key(p),
                            file |-> WriteSections([j \in 1 .. n |-> sections[order[j]]]),
                            order |-> order],
                   ret |-> decrypt_file_sync(WriteSections([j \in 1 .. n |->
                                                               sections[order[j]]]),
                                             password_to_key(p))]
    /\ UNCHANGED <<cfgVars, ui, tp, envVars, poolVars, fileVars, bk>>

\* the test is over: the next one can start
CallReturn ==
    /\ call # NoCall
    /\ call' = NoCall
    /\ UNCHANGED <<cfgVars, ui, tp, envVars, poolVars, fileVars, bk>>

CallNext ==
    \/ CallReturn
    \/ CallEncode
    \/ CallDecode
    \/ CallReadSection
    \/ CallAesDecrypt
    \/ CallBackupChunkSize
    \/ CallEncryptFile
    \/ CallDecryptTampered
    \/ CallDecryptRearranged

CallSpec == CallInit /\ [][CallNext]_vars

(***************************************************************************)
(* backup.rs: a run of backup().  A path is the sequence of its            *)
(* components; bk holds the arguments, the place in the function, whether  *)
(* the temporary tar file exists and whether a file was created at the     *)
(* output path.                                                            *)
(***************************************************************************)
\* the include paths: the empty path, two paths that end in the same
\* component, and another one
IncludePaths == {<<>>, <<"a">>, <<"x", "a">>, <<"b">>}

\* the longest list of include paths
MaxIncludes == 3
IncludeLists == UNION {[1 .. n -> IncludePaths] : n \in 0 .. MaxIncludes}

\* last_path_component: None (the empty sequence) for a path without
\* components, Some(the last one) otherwise
last_path_component(path) == IF path = <<>> THEN <<>> ELSE <<path[Len(path)]>>

\* validate_no_duplicate_include_names: the unwrap of a None unwinds
validate_no_duplicate_include_names(include_paths) ==
    LET Loop[i \in Nat, include_set \in SUBSET {"a", "b", "x"}] ==
            IF i > Len(include_paths) THEN "Ok"
            ELSE IF last_path_component(include_paths[i]) = <<>> THEN "panic"
            ELSE IF last_path_component(include_paths[i])[1] \in include_set
                 THEN "DuplicateIncludeName"
            ELSE Loop[i + 1, include_set \cup {last_path_component(include_paths[i])[1]}]
    IN  Loop[1, {}]

\* validate_path_does_not_exist(path, PathType::Any), given path.exists()
\* a faulty variant of validate_path_does_not_exist, which accepts every path
validate_path_unchecked(exists) == "Ok"

validate_path_does_not_exist(exists) == IF exists THEN "PathAlreadyExists" ELSE "Ok"

\* a faulty variant of DropTar: the handle leaves its file behind
DropTarKeepsFile(tar) == tar

\* the drop of the NamedTempFile: its file is deleted if it is still there
DropTar(tar) == IF tar = "exists" THEN "deleted" ELSE tar

\* backup() is called
BackupCall ==
    /\ bk = NoBackup
    /\ \E include_paths \in IncludeLists, exists \in BOOLEAN :
          bk' = [pc |-> "validate_names", include_paths |-> include_paths,
                 out_exists |-> exists, tar |-> "none", out_created |-> FALSE,
                 out_complete |-> FALSE, appended |-> 0, result |-> "running"]
    /\ UNCHANGED <<cfgVars, ui, tp, envVars, poolVars, fileVars, call>>

\* validate_no_duplicate_include_names(include_paths)?
BackupValidateNames ==
    /\ bk.pc = "validate_names"
    /\ \E checked \in {validate_no_duplicate_include_names(bk.include_paths)} :
          bk' = IF checked = "Ok" THEN [bk EXCEPT !.pc = "validate_path"]
                ELSE [bk EXCEPT !.pc = "done", !.result = checked]
    /\ UNCHANGED <<cfgVars, ui, tp, envVars, poolVars, fileVars, call>>

\* validate_path_does_not_exist(&output_path, PathType::Any)?
BackupValidatePath ==
    /\ bk.pc = "validate_path"
    /\ \E checked \in {validate_path_does_not_exist(bk.out_exists)} :
          bk' = IF checked = "Ok" THEN [bk EXCEPT !.pc = "create_tar"]
                ELSE [bk EXCEPT !.pc = "done", !.result = checked]
    /\ UNCHANGED <<cfgVars, ui, tp, envVars, poolVars, fileVars, call>>

\* NamedTempFile::new()?: the file is created, or the call fails
BackupCreateTar ==
    /\ bk.pc = "create_tar"
    /\ \/ bk' = [bk EXCEPT !.pc = "append", !.tar = "exists"]
       \/ bk' = [bk EXCEPT !.pc = "done", !.result = "IOError"]
    /\ UNCHANGED <<cfgVars, ui, tp, envVars, poolVars, fileVars, call>>

\* one turn of the loop over the include paths: append_to_archive(..)? returns
\* Ok, or an error with which backup returns, dropping tar_file
BackupAppend ==
    /\ bk.pc = "append"
    /\ bk.appended < Len(bk.include_paths)
    /\ \/ bk' = [bk EXCEPT !.appended = @ + 1]
       \/ bk' = [bk EXCEPT !.pc = "done", !.result = "IOError", !.tar = DropTar(@)]
    /\ UNCHANGED <<cfgVars, ui, tp, envVars, poolVars, fileVars, call>>

\* archive.finish()? after the loop
BackupFinish ==
    /\ bk.pc = "append"
    /\ bk.appended = Len(bk.include_paths)
    /\ \/ bk' = [bk EXCEPT !.pc = "encrypt"]
       \/ bk' = [bk EXCEPT !.pc = "done", !.result = "IOError", !.tar = DropTar(@)]
    /\ UNCHANGED <<cfgVars, ui, tp, envVars, poolVars, fileVars, call>>

\* encrypt_backup(&tar_path, &output_path, &key, chunk_size)?, first part:
\* StdFile::open(src_path)? and StdFile::create(dest_path)?.  The output file
\* is created, empty, at the output path itself; or one of the two calls
\* fails and backup returns the error, dropping tar_file
BackupEncrypt ==
    /\ bk.pc = "encrypt"
    /\ \/ bk' = [bk EXCEPT !.pc = "encrypt_file", !.out_created = TRUE]
       \/ bk' = [bk EXCEPT !.pc = "done", !.result = "IOError", !.tar = DropTar(@)]
    /\ UNCHANGED <<cfgVars, ui, tp, envVars, poolVars, fileVars, call>>

\* second part: encrypt_file_sync(&mut src, &mut dest, key, chunk_size) writes
\* all the sections and returns Ok; or a read, an encryption or a write fails
\* and backup returns the error, dropping tar_file
BackupEncryptFile ==
    /\ bk.pc = "encrypt_file"
    /\ \/ bk' = [bk EXCEPT !.pc = "remove_tar", !.out_complete = TRUE]
       \/ bk' = [bk EXCEPT !.pc = "done", !.result = "IOError", !.tar = DropTar(@)]
    /\ UNCHANGED <<cfgVars, ui, tp, envVars, poolVars, fileVars, call>>

\* fs::remove_file(&tar_path)?, then Ok(output_path) and the drop of tar_file
BackupRemoveTar ==
    /\ bk.pc = "remove_tar"
    /\ bk' = [bk EXCEPT !.pc = "done", !.result = "Ok", !.tar = DropTar("deleted")]
    /\ UNCHANGED <<cfgVars, ui, tp, envVars, poolVars, fileVars, call>>

\* the caller is done with the result
BackupReturn ==
    /\ bk # NoBackup
    /\ bk.pc = "done"
    /\ bk' = NoBackup
    /\ UNCHANGED <<cfgVars, ui, tp, envVars, poolVars, fileVars, call>>

BackupNext ==
    \/ BackupCall
    \/ BackupValidateNames
    \/ BackupValidatePath
    \/ BackupCreateTar
    \/ BackupAppend
    \/ BackupFinish
    \/ BackupEncrypt
    \/ BackupEncryptFile
    \/ BackupRemoveTar
    \/ BackupReturn

BackupSpec == CallInit /\ [][BackupNext]_vars

(***************************************************************************)
(* memory.rs: the estimate of the memory a run needs, and the command line *)
(* that checks it before it starts a backup or an extraction.              *)
(***************************************************************************)
\* pub const MEMORY_LIMIT: usize = 1 << 30
MEMORY_LIMIT == Usize(1073741824)

\* chunk_size * total_pool_size in usize: byte by byte with the carry, the
\* bits beyond the 64th are lost
MulSmall(u, m) ==
    LET Mul[v \in Seq(Nat), carry \in Nat] ==
            IF v = <<>> THEN <<>>
            ELSE <<(Head(v) * m + carry) % 256>>
                     \o Mul[Tail(v), (Head(v) * m + carry) \div 256]
    IN  Mul[u, 0]

\* u > v on usize: the most significant byte that differs decides
Greater(u, v) ==
    \E i \in 1 .. USIZE_BYTES :
        /\ u[i] > v[i]
        /\ \A j \in (i + 1) .. USIZE_BYTES : u[j] = v[j]

\* a faulty variant of estimated_memory_usage, which counts 2n+3 chunks
estimated_memory_usage_2n_plus_3(chunk, pool_size) == MulSmall(chunk, pool_size * 2 + 3)

\* estimated_memory_usage(chunk_size, pool_size)
estimated_memory_usage(chunk, pool_size) == MulSmall(chunk, pool_size * 2 + 5)

\* check_memory(chunk_size, pool_size, override_limit)
check_memory(chunk, pool_size, override_limit) ==
    LET required_bytes == estimated_memory_usage(chunk, pool_size)
    IN  IF Greater(required_bytes, MEMORY_LIMIT)
        THEN IF ~override_limit THEN "Err" ELSE "Ok"
        ELSE "Ok"

\* validate_chunk_size and validate_pool_size: what the command line accepts
MIN_MAGNITUDE == 10
MAX_MAGNITUDE == 30
MAX_POOL_SIZE == 64
Magnitudes == MIN_MAGNITUDE .. MAX_MAGNITUDE
CliPoolSizes == {1, 4, 16, MAX_POOL_SIZE}

\* the files extract is asked for on the command line, as far as their first
\* bytes go: every length prefix, and files shorter than a prefix
CliFiles == PrefixInputs \cup {Zeros(n) : n \in 0 .. LEN_SIZE - 1}

\* check_memory called on its own: every pool size a u8 holds, the chunk
\* sizes of the command line and the two chunk sizes either side of the limit
CallCheckMemory ==
    /\ call = NoCall
    /\ \E pool_size \in 0 .. 255, override_limit \in BOOLEAN :
       \E size_arg \in {2 ^ m : m \in Magnitudes}
                          \cup {1073741824 \div (pool_size * 2 + 5) + d : d \in {0, 1}} :
          call' = [fn |-> "check_memory",
                   arg |-> [chunk_size |-> Usize(size_arg), pool_size |-> pool_size,
                            override_limit |-> override_limit],
                   ret |-> check_memory(Usize(size_arg), pool_size, override_limit)]
    /\ UNCHANGED <<cfgVars, ui, tp, envVars, poolVars, fileVars, bk>>

\* perform_backup(Commands::Backup {..}): check_memory(..)?, get_password,
\* backup::backup
CliBackup ==
    /\ call = NoCall
    /\ \E magnitude \in Magnitudes, pool_size \in CliPoolSizes,
          override_limit \in BOOLEAN, outcome \in {"Invalid password", "Ok", "Err"} :
       \E checked \in {check_memory(Usize(2 ^ magnitude), pool_size, override_limit)} :
          call' = [fn |-> "perform_backup", command |-> "backup",
                   arg |-> [chunk_size |-> Usize(2 ^ magnitude), pool_size |-> pool_size,
                            override_limit |-> override_limit],
                   memory |-> checked,
                   started |-> checked = "Ok" /\ outcome # "Invalid password",
                   ret |-> IF checked = "Ok" /\ outcome = "Ok" THEN "Ok" ELSE "Err"]
    /\ UNCHANGED <<cfgVars, ui, tp, envVars, poolVars, fileVars, bk>>

\* perform_backup(Commands::Extract {..}): backup_chunk_size(..)?,
\* check_memory(..)?, get_password, backup::extract
CliExtract ==
    /\ call = NoCall
    /\ \E file \in CliFiles, pool_size \in CliPoolSizes,
          override_limit \in BOOLEAN, outcome \in {"Invalid password", "Ok", "Err"} :
       \E size_read \in {backup_chunk_size(file)} :
          IF ~size_read.ok
          THEN call' = [fn |-> "perform_backup", command |-> "extract",
                        arg |-> [file |-> file, pool_size |-> pool_size,
                                 override_limit |-> override_limit],
                        memory |-> "none", started |-> FALSE, ret |-> "Err"]
          ELSE \E checked \in {check_memory(size_read.size, pool_size, override_limit)} :
                  call' = [fn |-> "perform_backup", command |-> "extract",
                           arg |-> [file |-> file, chunk_size |-> size_read.size,
                                    pool_size |-> pool_size,
                                    override_limit |-> override_limit],
                           memory |-> checked,
                           started |-> checked = "Ok" /\ outcome # "Invalid password",
                           ret |-> IF checked = "Ok" /\ outcome = "Ok" THEN "Ok"
                                   ELSE "Err"]
    /\ UNCHANGED <<cfgVars, ui, tp, envVars, poolVars, fileVars, bk>>

CliNext ==
    \/ CallReturn
    \/ CallCheckMemory
    \/ CliBackup
    \/ CliExtract

CliSpec == CallInit /\ [][CliNext]_vars

(***************************************************************************)
(* backup.rs: a run of extract(path, output_path, password).               *)
(***************************************************************************)
\* the longest source the extracted backups are made from
MaxExtractLen == 2

\* the backup files extract is called on: backups of short sources, and a
\* path at which no file can be opened
ExtractFiles ==
    {encrypt_file_sync(src, password_to_key(p), c, [k \in 1 .. MaxExtractLen |-> k % 2]) :
        src \in {m \in Plaintexts : Len(m) <= MaxExtractLen},
        p \in Passwords, c \in ChunkSizes}
ExtractPaths == [exists : {TRUE}, bytes : ExtractFiles] \cup {[exists |-> FALSE]}

\* extract() is called
ExtractCall ==
    /\ bk = NoBackup
    /\ \E path \in ExtractPaths, exists \in BOOLEAN, password \in Passwords :
          bk' = [pc |-> "x_validate_path", path |-> path, out_exists |-> exists,
                 password |-> password, key |-> <<>>, src_read |-> FALSE,
                 tmp_created |-> FALSE, out_written |-> FALSE, tar |-> <<>>,
                 result |-> "running"]
    /\ UNCHANGED <<cfgVars, ui, tp, envVars, poolVars, fileVars, call>>

\* validate_path_does_not_exist(&output_path, PathType::Any)?
ExtractValidatePath ==
    /\ bk.pc = "x_validate_path"
    /\ \E checked \in {validate_path_does_not_exist(bk.out_exists)} :
          bk' = IF checked = "Ok" THEN [bk EXCEPT !.pc = "x_key"]
                ELSE [bk EXCEPT !.pc = "x_done", !.result = checked]
    /\ UNCHANGED <<cfgVars, ui, tp, envVars, poolVars, fileVars, call>>

\* let key = password_to_key(&password)
ExtractKey ==
    /\ bk.pc = "x_key"
    /\ bk' = [bk EXCEPT !.pc = "x_decrypt", !.key = password_to_key(bk.password)]
    /\ UNCHANGED <<cfgVars, ui, tp, envVars, poolVars, fileVars, call>>

\* decrypt_backup(&path, &key)?: StdFile::open(src_path)? fails when there is
\* no file; tempfile::tempfile()? creates the temp file or fails; then
\* decrypt_file_sync reads the backup into it
ExtractDecrypt ==
    /\ bk.pc = "x_decrypt"
    /\ \/ /\ ~bk.path.exists
          /\ bk' = [bk EXCEPT !.pc = "x_done", !.result = "IOError"]
       \/ /\ bk.path.exists
          /\ bk' = [bk EXCEPT !.pc = "x_done", !.result = "IOError"]
       \/ /\ bk.path.exists
          /\ \E run \in {decrypt_file_sync(bk.path.bytes, bk.key)} :
                bk' = [bk EXCEPT !.pc = IF run.result = "Ok" THEN "x_unpack" ELSE "x_done",
                                 !.result = IF run.result = "Ok" THEN "running"
                                            ELSE run.result,
                                 !.src_read = TRUE, !.tmp_created = TRUE,
                                 !.tar = run.dest]
    /\ UNCHANGED <<cfgVars, ui, tp, envVars, poolVars, fileVars, call>>

\* archive.unpack(&output_path)?: the output directory is created and filled,
\* or the unpacking fails on the way
ExtractUnpack ==
    /\ bk.pc = "x_unpack"
    /\ \E result \in {"Ok", "IOError"} :
          bk' = [bk EXCEPT !.pc = "x_done", !.result = result, !.out_written = TRUE]
    /\ UNCHANGED <<cfgVars, ui, tp, envVars, poolVars, fileVars, call>>

\* extract has returned: the next call can start
ExtractReturn ==
    /\ bk # NoBackup
    /\ bk.pc = "x_done"
    /\ bk' = NoBackup
    /\ UNCHANGED <<cfgVars, ui, tp, envVars, poolVars, fileVars, call>>

ExtractNext ==
    \/ ExtractCall
    \/ ExtractValidatePath
    \/ ExtractKey
    \/ ExtractDecrypt
    \/ ExtractUnpack
    \/ ExtractReturn

ExtractSpec == CallInit /\ [][ExtractNext]_vars

(***************************************************************************)
(* src/pool.rs: TaskPool.  One thread calls TaskPool::new, queue for each  *)
(* of its tasks and then finish; the pool's own thread takes the requests  *)
(* and hands each to a worker that reported ready; each worker is a thread *)
(* with a channel of its own.  A request is the number of its task, or 0   *)
(* for TaskRequest::Exit.  Tasks return.                                   *)
(***************************************************************************)
\* the largest TaskPool, and the longest list of tasks queued on one
MaxTaskPool == 3
MaxQueued == 4

Exit == 0
TaskPoolWorkers == 0 .. (tp.size - 1)

\* a faulty variant of ReadyCapacity: one place short
ReadyCapacityShort == tp.size - 1

\* sync_channel(size) for the requests of the pool, sync_channel(size) for
\* the Ready messages, sync_channel(1) for the requests of one worker
TaskCapacity == tp.size
ReadyCapacity == tp.size
WorkerTaskCapacity == 1

\* TaskPool::new(size): the channels are created and the pool's thread is
\* spawned, which spawns the workers; then the caller queues `num` tasks
TaskPoolNew ==
    /\ tp = NoTaskPool
    /\ \E n \in 1 .. MaxTaskPool, num \in 0 .. MaxQueued :
          tp' = [pc |-> "queue", size |-> n, num |-> num, queued |-> 0,
                 task_chan |-> <<>>, ready_chan |-> <<>>,
                 handle |-> [pc |-> "recv", task |-> Exit, worker_id |-> 0, next |-> 0],
                 worker_chan |-> [i \in 0 .. (n - 1) |-> <<>>],
                 worker |-> [i \in 0 .. (n - 1) |-> [pc |-> "ready", task |-> Exit]],
                 runs |-> [k \in 1 .. num |-> 0]]
    /\ UNCHANGED <<cfgVars, ui, envVars, poolVars, fileVars, auxVars>>

\* TaskPool::queue(task): task_sender.send(TaskRequest::Run(..)) returns
TaskPoolQueue ==
    /\ tp.pc = "queue"
    /\ tp.queued < tp.num
    /\ Len(tp.task_chan) < TaskCapacity
    /\ tp' = [tp EXCEPT !.task_chan = Append(@, tp.queued + 1), !.queued = @ + 1]
    /\ UNCHANGED <<cfgVars, ui, envVars, poolVars, fileVars, auxVars>>

\* TaskPool::finish, first statement: task_sender.send(TaskRequest::Exit)
TaskPoolFinishSend ==
    /\ tp.pc = "queue"
    /\ tp.queued = tp.num
    /\ Len(tp.task_chan) < TaskCapacity
    /\ tp' = [tp EXCEPT !.task_chan = Append(@, Exit), !.pc = "join"]
    /\ UNCHANGED <<cfgVars, ui, envVars, poolVars, fileVars, auxVars>>

\* TaskPool::finish, second statement: handle.join() returns
TaskPoolFinishJoin ==
    /\ tp.pc = "join"
    /\ tp.handle.pc = "exited"
    /\ tp' = [tp EXCEPT !.pc = "finished"]
    /\ UNCHANGED <<cfgVars, ui, envVars, poolVars, fileVars, auxVars>>

\* the pool's thread: task_receiver.recv() returns a request
HandleRecv ==
    /\ tp # NoTaskPool
    /\ tp.handle.pc = "recv"
    /\ tp.task_chan # <<>>
    /\ tp' = [tp EXCEPT !.task_chan = Tail(@),
                        !.handle = IF Head(tp.task_chan) = Exit
                                   THEN [@ EXCEPT !.pc = "finish"]
                                   ELSE [@ EXCEPT !.pc = "ready",
                                                  !.task = Head(tp.task_chan)]]
    /\ UNCHANGED <<cfgVars, ui, envVars, poolVars, fileVars, auxVars>>

\* the pool's thread: ready_receiver.recv() returns Ready(worker_id)
HandleReady ==
    /\ tp # NoTaskPool
    /\ tp.handle.pc = "ready"
    /\ tp.ready_chan # <<>>
    /\ tp' = [tp EXCEPT !.ready_chan = Tail(@),
                        !.handle = [@ EXCEPT !.pc = "run",
                                             !.worker_id = Head(tp.ready_chan)]]
    /\ UNCHANGED <<cfgVars, ui, envVars, poolVars, fileVars, auxVars>>

\* the pool's thread: workers.get(worker_id).unwrap().run(task)
HandleRun ==
    /\ tp # NoTaskPool
    /\ tp.handle.pc = "run"
    /\ Len(tp.worker_chan[tp.handle.worker_id]) < WorkerTaskCapacity
    /\ tp' = [tp EXCEPT !.worker_chan[tp.handle.worker_id] = Append(@, tp.handle.task),
                        !.handle = [@ EXCEPT !.pc = "recv", !.task = Exit]]
    /\ UNCHANGED <<cfgVars, ui, envVars, poolVars, fileVars, auxVars>>

\* the pool's thread, after its loop: Worker::finish of the next worker sends
\* TaskRequest::Exit to it; after the last worker the thread ends
HandleFinishSend ==
    /\ tp # NoTaskPool
    /\ tp.handle.pc = "finish"
    /\ IF tp.handle.next = tp.size
       THEN tp' = [tp EXCEPT !.handle = [@ EXCEPT !.pc = "exited"]]
       ELSE /\ Len(tp.worker_chan[tp.handle.next]) < WorkerTaskCapacity
            /\ tp' = [tp EXCEPT !.worker_chan[tp.handle.next] = Append(@, Exit),
                                !.handle = [@ EXCEPT !.pc = "join"]]
    /\ UNCHANGED <<cfgVars, ui, envVars, poolVars, fileVars, auxVars>>

\* Worker::finish: the worker's handle.join() returns
HandleFinishJoin ==
    /\ tp # NoTaskPool
    /\ tp.handle.pc = "join"
    /\ tp.worker[tp.handle.next].pc = "exited"
    /\ tp' = [tp EXCEPT !.handle = [@ EXCEPT !.pc = "finish", !.next = @ + 1]]
    /\ UNCHANGED <<cfgVars, ui, envVars, poolVars, fileVars, auxVars>>

\* worker i: ready_sender.send(TaskResponse::Ready(id)) returns
TaskWorkerReady(i) ==
    /\ tp.worker[i].pc = "ready"
    /\ Len(tp.ready_chan) < ReadyCapacity
    /\ tp' = [tp EXCEPT !.ready_chan = Append(@, i), !.worker[i].pc = "recv"]
    /\ UNCHANGED <<cfgVars, ui, envVars, poolVars, fileVars, auxVars>>

\* worker i: task_receiver.recv() returns a request
TaskWorkerRecv(i) ==
    /\ tp.worker[i].pc = "recv"
    /\ tp.worker_chan[i] # <<>>
    /\ tp' = [tp EXCEPT !.worker_chan[i] = Tail(@),
                        !.worker[i] = IF Head(tp.worker_chan[i]) = Exit
                                      THEN [pc |-> "exited", task |-> Exit]
                                      ELSE [pc |-> "job", task |-> Head(tp.worker_chan[i])]]
    /\ UNCHANGED <<cfgVars, ui, envVars, poolVars, fileVars, auxVars>>

\* worker i: job() returns
TaskWorkerJob(i) ==
    /\ tp.worker[i].pc = "job"
    /\ tp' = [tp EXCEPT !.runs[tp.worker[i].task] = @ + 1,
                        !.worker[i] = [pc |-> "ready", task |-> Exit]]
    /\ UNCHANGED <<cfgVars, ui, envVars, poolVars, fileVars, auxVars>>

\* the threads of the pool
TaskPoolThreads ==
    \/ HandleRecv
    \/ HandleReady
    \/ HandleRun
    \/ HandleFinishSend
    \/ HandleFinishJoin
    \/ /\ tp # NoTaskPool
       /\ \E i \in TaskPoolWorkers : TaskWorkerReady(i) \/ TaskWorkerRecv(i) \/ TaskWorkerJob(i)

\* finish has returned: the test goes on to its next pool
TaskPoolEnd ==
    /\ tp # NoTaskPool
    /\ tp.pc = "finished"
    /\ tp' = NoTaskPool
    /\ UNCHANGED <<cfgVars, ui, envVars, poolVars, fileVars, auxVars>>

TaskPoolNext ==
    \/ TaskPoolNew
    \/ tp # NoTaskPool /\ TaskPoolQueue
    \/ tp # NoTaskPool /\ TaskPoolFinishSend
    \/ tp # NoTaskPool /\ TaskPoolFinishJoin
    \/ TaskPoolThreads
    \/ TaskPoolEnd

TaskPoolSpec == CallInit /\ [][TaskPoolNext]_vars

(***************************************************************************)
(* Derived state.                                                          *)
(***************************************************************************)
Panicked == \E i \in WorkerIds : workers[i].pc = "panicked"
PanickedTask(k) == \E i \in WorkerIds : workers[i].pc = "panicked" /\ workers[i].held.id = k
AllWorkersDone == \A i \in WorkerIds : ~WorkerAlive(i)
AllDone == ~DispatcherAlive /\ AllWorkersDone /\ ~CollectorAlive
\* tasks send() has accepted whose results recv() has not returned
InFlight == sent - Len(received)
\* how often recv() has returned the result of task k
Delivered(k) == Cardinality({j \in 1 .. Len(received) : received[j].id = k})
\* recv() returned None in a run where no task panicked
CleanEnd == consumer = "none" /\ ~Panicked
\* the chunks alive in the pool: requests and responses queued in the two
\* shared channels or held by a thread
PoolBuffers ==
    Len(request_chan) + (IF dispatcher.pc = "send" THEN 1 ELSE 0)
        + Cardinality({i \in WorkerIds : workers[i].pc \in {"run", "send"}})
        + (IF collector.pc = "send" THEN 1 ELSE 0) + Len(response_chan)
\* the chunk the reader has read and is about to submit
ReaderBuffer == IF ReaderRunning /\ ReaderNext # <<>> THEN 1 ELSE 0
\* the result the writer has received and not yet written
WriterBuffer == IF consumer = "write" THEN 1 ELSE 0
\* the chunk-sized buffers alive at once
ChunkBuffers == ReaderBuffer + PoolBuffers + WriterBuffer
\* what the pipeline that is running (or ran last) returned to its caller
PipelineResult == IF op = "encrypt" THEN enc_result ELSE dec_result
\* a thread of the pipeline returned an error
ReaderFailed == reader_result \notin {"running", "Ok"}
WriterFailed == writer_result \notin {"running", "Ok"}

(***************************************************************************)
(* Properties of encrypting and decrypting a file (under FileSpec).        *)
(***************************************************************************)

\* C4: for every plaintext (empty ones and lengths that are not a multiple of
\* the chunk size included), password, chunk size and pool size, encrypting
\* ends with Ok and decrypting the result with the same password ends with Ok
\* and has written exactly the plaintext.
C4_RoundTrip ==
    /\ enc_result \in {"running", "Ok"}
    /\ (enc_password = dec_password /\ dec_result # "running") =>
           dec_result = "Ok" /\ decrypted = plaintext

\* C4 happens: five bytes in chunks of two, through a pool of two workers,
\* decrypted with the password they were encrypted with.
C4_Witness ==
    /\ impl = "pool"
    /\ size = 2
    /\ chunk_size = 2
    /\ Len(plaintext) = 5
    /\ enc_password = dec_password
    /\ dec_result = "Ok"

\* C5 as stated: decrypting with another password than the one used to
\* encrypt ends with CryptoError, never Ok, and writes nothing.
C5_WrongPasswordIsCryptoError ==
    (enc_password # dec_password /\ dec_result # "running") =>
        dec_result = "CryptoError" /\ decrypted = <<>>

\* C5, amended: decrypting a backup of a plaintext that is not empty with
\* another password than the one used to encrypt ends with CryptoError, never
\* Ok; the error is that of the first section (the writer's first result in
\* the pipeline, the first turn of the sequential loop) and nothing is ever
\* written to the destination, neither before nor after the end.
C5_WrongPasswordOnNonEmpty ==
    /\ enc_password # dec_password => decrypted = <<>>
    /\ (enc_password # dec_password /\ dec_result # "running" /\ plaintext # <<>>) =>
           /\ dec_result = "CryptoError"
           /\ impl = "pool" => Len(received) = 1 /\ ~received[1].val.ok
           /\ impl = "sync" => pos = read_section_sync(backup_file, 0).pos

\* C5 happens: a backup of five chunks is decrypted with the other password
\* through the pipeline, whose reader saw a send() fail after the writer left.
C5_Witness ==
    /\ impl = "pool"
    /\ enc_password # dec_password
    /\ Len(plaintext) = 5
    /\ chunk_size = 1
    /\ producer = "failed"
    /\ dec_result = "CryptoError"

\* C6: in both pipelines and for every interleaving of the workers, the k-th
\* result the writer gets is that of the k-th chunk, so the k-th section of
\* the backup file holds the k-th chunk of the source, and what decrypting
\* with the same password has written so far is the start of the source, up
\* to the end of a chunk.
C6_WriterKeepsSourceOrder ==
    LET Chunk(k) == Slice(plaintext, (k - 1) * chunk_size, k * chunk_size)
        RECURSIVE Holds(_, _)
        Holds(offset, k) ==
            LET section == read_section_sync(backup_file, offset)
            IN  IF section.kind = "none" THEN TRUE
                ELSE /\ section.kind = "some"
                     /\ aes_decrypt(EncKey, section.data) = [ok |-> TRUE, data |-> Chunk(k)]
                     /\ Holds(section.pos, k + 1)
    IN  /\ \A j \in 1 .. Len(received) : received[j].id = j
        /\ Holds(0, 1)
        /\ enc_password = dec_password =>
               /\ decrypted = Slice(plaintext, 0, Len(decrypted))
               /\ Len(decrypted) % chunk_size # 0 => Len(decrypted) = Len(plaintext)
        /\ (impl = "pool" /\ op = "decrypt" /\ enc_password = dec_password) =>
               Len(decrypted) = Min(Len(received) * chunk_size, Len(plaintext))

\* C6 happens: the writer of the decrypt pipeline has written three chunks
\* that went through two workers, and more are to come.
C6_Witness ==
    /\ impl = "pool"
    /\ size = 2
    /\ op = "decrypt"
    /\ chunk_size = 1
    /\ Len(received) = 3
    /\ Len(decrypted) = 3
    /\ writer_result = "running"
    /\ Len(plaintext) = 5

\* C17: a source of n bytes encrypted with chunk size c gives ceil(n/c)
\* sections and nothing else: the k-th section declares the length of the
\* k-th chunk (c bytes, or what is left for the last) plus 28, the file is
\* n + 33 * ceil(n/c) bytes long, and the pipeline has submitted one task per
\* chunk; for n = 0 no task is submitted, the backup file is empty, and
\* decrypting it ends with Ok having written nothing.
C17_SectionLayout ==
    LET n == Len(plaintext)
        chunks == (n + chunk_size - 1) \div chunk_size
        overhead == LEN_SIZE + AES_NONCE_SIZE + GCM_TAG_SIZE
        ChunkLen(k) == Min(chunk_size, n - (k - 1) * chunk_size)
        SectionStart(k) == (k - 1) * overhead + Min((k - 1) * chunk_size, n)
    IN  /\ enc_result = "Ok" =>
               /\ Len(backup_file) = n + overhead * chunks
               /\ \A k \in 1 .. chunks :
                      decode_section_size(Slice(backup_file, SectionStart(k),
                                                SectionStart(k) + LEN_SIZE))
                          = Usize(ChunkLen(k) + AES_NONCE_SIZE + GCM_TAG_SIZE)
               /\ (impl = "pool" /\ op = "encrypt") => sent = chunks
        /\ n = 0 =>
               /\ backup_file = <<>>
               /\ sent = 0
               /\ dec_result \in {"running", "Ok"}
               /\ decrypted = <<>>

\* C17 happens: five bytes in chunks of two were encrypted by the pipeline
\* into three sections, the last one of a single byte.
C17_Witness ==
    /\ impl = "pool"
    /\ op = "encrypt"
    /\ enc_result = "Ok"
    /\ Len(plaintext) = 5
    /\ chunk_size = 2
    /\ sent = 3
    /\ Len(backup_file) = 5 + 3 * (LEN_SIZE + AES_NONCE_SIZE + GCM_TAG_SIZE)

(***************************************************************************)
(* Properties of the pool (under Spec, or FairSpec where they say          *)
(* "eventually").                                                          *)
(***************************************************************************)

\* C1: whatever the pool size and the interleaving of the workers, the values
\* recv() has returned so far are the return values of the first tasks passed
\* to send(), in the order they were sent; when recv() returns None after a
\* run without panic, they are the values of all the tasks sent.
C1_ReceivedInSubmissionOrder ==
    /\ \A j \in 1 .. Len(received) : received[j] = [id |-> j, val |-> ReturnValue(j)]
    /\ CleanEnd => Len(received) = sent

\* C1 happens: two workers, every task of the list sent and received.
C1_Witness == size = 2 /\ consumer = "none" /\ Len(received) = num_tasks

\* C2 as stated: recv() returns None only when the sender has been dropped and
\* every accepted task's result has been returned.
C2_NoneOnlyWhenDrained ==
    consumer = "none" => producer # "active" /\ Len(received) = sent

\* C2, amended: recv() returns None only when the sender is gone and every
\* accepted task's result has been returned, or when the task whose result is
\* due next has panicked in its worker; and once the sender is dropped and all
\* results are delivered a consumer waiting in recv() does not wait forever.
C2_NoneWhenDrainedOrPanicked ==
    /\ [](consumer = "none" =>
             \/ producer # "active" /\ Len(received) = sent
             \/ PanickedTask(Len(received) + 1))
    /\ (producer = "dropped" /\ Len(received) = sent /\ consumer = "recv")
           ~> (consumer # "recv")

\* C2 happens: the sender was dropped after three tasks or more, all results
\* were returned, and recv() returned None.
C2_Witness ==
    consumer = "none" /\ producer = "dropped" /\ sent >= 3 /\ Len(received) = sent

\* C3 as stated: the tasks accepted by send() whose results recv() has not
\* returned are never more than 2N+3.
C3_InFlightAtMost2NPlus3 == InFlight <= 2 * size + 3

\* C7 as stated: once the pool has stopped, every task send() accepted has run
\* exactly once and its result was returned exactly once.
C7_ExactlyOnceWhenStopped ==
    (AllDone /\ consumer # "recv") =>
        \A k \in 1 .. sent : Len(ran_by[k]) = 1 /\ Delivered(k) = 1

\* C7, amended: no task runs twice, no result is returned twice, a returned
\* result is that of a task that ran, and nothing runs that was not sent; and
\* when recv() returns None after a run without panic, every accepted task
\* has run exactly once and had its result returned exactly once.
C7_AtMostOnceAndExactlyOnceAtCleanEnd ==
    /\ \A k \in 1 .. num_tasks :
          /\ Len(ran_by[k]) <= 1
          /\ Delivered(k) <= 1
          /\ Delivered(k) = 1 => Len(ran_by[k]) = 1
          /\ k > sent => Len(ran_by[k]) = 0
    /\ CleanEnd => \A k \in 1 .. sent : Len(ran_by[k]) = 1 /\ Delivered(k) = 1

\* C7 happens: a clean end with two workers that both ran tasks.
C7_Witness ==
    /\ CleanEnd
    /\ size = 2
    /\ sent >= 4
    /\ \E k \in 1 .. sent : ran_by[k] = <<0>>
    /\ \E k \in 1 .. sent : ran_by[k] = <<1>>

\* C8 as stated: when no task panics and the consumer keeps its half, the
\* collector terminates only after all the workers have.
C8_CollectorAfterAllWorkers ==
    (~Panicked /\ consumer # "dropped" /\ ~CollectorAlive) => AllWorkersDone

\* C8, amended: after the sender is dropped the dispatcher, every worker and
\* the collector all terminate; when no task panics and the consumer keeps
\* its half, a worker terminates only after the dispatcher, the collector only
\* after the worker it is listening to, and recv() returns None only after the
\* collector (the other workers may still be about to terminate).
C8_ShutdownChain ==
    /\ []((~Panicked /\ consumer # "dropped") =>
             /\ \A i \in WorkerIds : ~WorkerAlive(i) => ~DispatcherAlive
             /\ ~CollectorAlive => ~WorkerAlive(collector.response_index)
             /\ consumer = "none" => ~CollectorAlive)
    /\ (producer = "dropped") ~> AllDone

\* C8 happens: the sender was dropped, every thread has terminated and recv()
\* has seen the closed channel.
C8_Witness ==
    producer = "dropped" /\ AllDone /\ consumer = "none" /\ ~Panicked /\ size = 2

\* C9: once the receiver is dropped, a producer that has 2N+3 tasks left to
\* submit gets an error from send() (it does not block forever), and all the
\* threads of the pool terminate unless the producer stops submitting while
\* keeping its half.
C9_ReceiverDropTearsDown ==
    /\ (consumer = "dropped" /\ producer = "active" /\ num_tasks - sent >= 2 * size + 3)
           ~> (producer # "active")
    /\ (consumer = "dropped") ~> (AllDone \/ (producer = "active" /\ sent = num_tasks))

\* C9 happens: the receiver was dropped, a send() failed, every thread is done.
C9_Witness == consumer = "dropped" /\ producer = "failed" /\ AllDone /\ ~Panicked

\* C10: after a task has panicked in a worker, a consumer in recv() gets an
\* answer and a producer with tasks left gets an answer from send(): neither
\* waits forever.
C10_PanicDoesNotDeadlock ==
    /\ Panicked ~> (consumer # "recv")
    /\ Panicked ~> (producer # "active" \/ sent = num_tasks)

\* C10 happens: a task panicked, recv() returned None and a send() failed.
C10_Witness == Panicked /\ consumer = "none" /\ producer = "failed"

(***************************************************************************)
(* Properties of the pipelines when reads and writes fail and when the     *)
(* backup file is cut short (under FaultSpec).                             *)
(***************************************************************************)

C12_NoThreadRunsAtReturn ==
    (impl = "pool" /\ PipelineResult # "running") =>
        reader_result # "running" /\ writer_result # "running" /\ AllDone

\* C12, amended: when encrypt or decrypt returns, the reader and the writer
\* have terminated and have given up their halves of the pool's channel; the
\* threads of the pool, which nothing joins, may still be running then, and
\* all of them terminate afterwards.
C12_JoinedThenPoolWindsDown ==
    /\ []((impl = "pool" /\ PipelineResult # "running") =>
             /\ reader_result # "running"
             /\ writer_result # "running"
             /\ producer # "active"
             /\ consumer # "recv")
    /\ (impl = "pool" /\ op = "encrypt" /\ enc_result # "running") ~> (AllDone \/ op = "decrypt")
    /\ (impl = "pool" /\ op = "decrypt" /\ dec_result # "running") ~> AllDone

\* C12 happens: decrypt has returned from a pipeline with two workers while a
\* thread of its pool was still running.
C12_Witness ==
    /\ impl = "pool"
    /\ size = 2
    /\ op = "decrypt"
    /\ dec_result = "Ok"
    /\ Len(received) >= 2
    /\ ~AllDone

\* C16 as stated: decrypting a valid backup file that was cut short anywhere
\* but at the end of a section (inside a length prefix or inside a payload)
\* ends with an I/O error or a CryptoError: it never unwinds and never ends
\* with Ok.
C16_TruncatedIsError ==
    LET chunks == (Len(plaintext) + chunk_size - 1) \div chunk_size
        SectionEnds == {j * (LEN_SIZE + AES_NONCE_SIZE + GCM_TAG_SIZE)
                            + Min(j * chunk_size, Len(plaintext)) : j \in 0 .. chunks}
    IN  (op = "decrypt" /\ dec_result # "running" /\ Len(backup_file) \notin SectionEnds) =>
            dec_result \in {"IOError", "CryptoError"}

(***************************************************************************)
(* Properties of the memory held by a pipeline (under BufSpec).            *)
(***************************************************************************)

\* C13 as stated: in every reachable state of an encrypt or decrypt run with
\* a pool of N workers, the chunk buffers alive at once (the reader's, those
\* queued or held in the pool, the writer's current result) are at most 2N+5.
C13_ChunkBuffersAtMost2NPlus5 == ChunkBuffers <= 2 * size + 5

(***************************************************************************)
(* Properties of the helper functions (under CallSpec).                    *)
(***************************************************************************)

\* C14 as stated: read_section returns None only when no byte is left; when 1
\* to 4 bytes of a length prefix are left, or fewer bytes follow the prefix
\* than the length L it declares, it fails with an UnexpectedEof I/O error and
\* returns no section.
C14_PartialSectionIsUnexpectedEof ==
    call.fn = "read_section_sync" =>
        LET avail == Len(call.arg)
            declared == decode_section_size(Slice(call.arg, 0, LEN_SIZE))
        IN  /\ call.ret.kind = "none" => avail = 0
            /\ avail \in 1 .. (LEN_SIZE - 1) => call.ret.kind = "err"
            /\ (avail >= LEN_SIZE
                   /\ (~IsSmall(declared) \/ avail - LEN_SIZE < ToInt(declared))) =>
                   call.ret.kind = "err"

\* C15 as stated: aes_decrypt returns a CryptoError, without unwinding and
\* without plaintext, for every blob shorter than 12 bytes and for every blob
\* that is not the nonce, ciphertext and tag of a message under the key.
C15_ShortOrForgedIsCryptoError ==
    call.fn = "aes_decrypt" =>
        LET key == call.arg.key
            blob == call.arg.blob
            nonce == Slice(blob, 0, AES_NONCE_SIZE)
            ct == Slice(blob, AES_NONCE_SIZE, Len(blob) - GCM_TAG_SIZE)
            msg == [i \in 1 .. Len(ct) |-> (ct[i] - KeyStream(key, nonce, i)) % 256]
            Sealed == /\ Len(blob) >= AES_NONCE_SIZE + GCM_TAG_SIZE
                      /\ blob = nonce \o GcmEncrypt(key, nonce, msg)
        IN  (Len(blob) < AES_NONCE_SIZE \/ ~Sealed) =>
                call.ret = [ok |-> FALSE, err |-> "CryptoError"]

\* C18: for every n below 2^40, decode_section_size(encode_section_size(n)) is
\* n and the encoding is the five low bytes of n, the most significant first;
\* for every five bytes b, encode_section_size(decode_section_size(b)) is b.
C18_SectionSizeRoundTrip ==
    /\ (call.fn = "encode_section_size" /\ \A i \in (LEN_SIZE + 1) .. USIZE_BYTES : call.arg[i] = 0) =>
           /\ call.back = call.arg
           /\ Len(call.ret) = LEN_SIZE
           /\ \A i \in 1 .. LEN_SIZE : call.ret[i] = call.arg[LEN_SIZE + 1 - i]
    /\ call.fn = "decode_section_size" =>
           /\ call.back = call.arg
           /\ Len(call.ret) = USIZE_BYTES

\* C18 happens: 2^40 - 1 was encoded, as five bytes 255, and decoded again.
C18_Witness ==
    /\ call.fn = "encode_section_size"
    /\ call.arg = <<255, 255, 255, 255, 255, 0, 0, 0>>
    /\ call.ret = <<255, 255, 255, 255, 255>>
    /\ call.back = call.arg

(***************************************************************************)
(* Properties of backup() (under BackupSpec).                              *)
(***************************************************************************)

\* C19 as stated: backup rejects its input before it creates any file: when
\* two include paths end in the same component it returns
\* DuplicateIncludeName, otherwise when the output path exists it returns
\* PathAlreadyExists, and in both cases no temporary file was created and
\* nothing was created at the output path.
C19_RejectsBeforeCreatingFiles ==
    bk # NoBackup =>
        LET paths == bk.include_paths
            Duplicate == \E i, j \in 1 .. Len(paths) :
                            /\ i < j
                            /\ paths[i] # <<>>
                            /\ paths[j] # <<>>
                            /\ paths[i][Len(paths[i])] = paths[j][Len(paths[j])]
        IN  /\ (Duplicate \/ bk.out_exists) => bk.tar = "none" /\ ~bk.out_created
            /\ (bk.pc = "done" /\ Duplicate) => bk.result = "DuplicateIncludeName"
            /\ (bk.pc = "done" /\ ~Duplicate /\ bk.out_exists) =>
                   bk.result = "PathAlreadyExists"

C21_OutputCreatedAtomically ==
    bk # NoBackup =>
        /\ bk.out_created => bk.out_complete
        /\ (bk.pc = "done" /\ bk.result # "Ok") => ~bk.out_created

\* C22: extract returns PathAlreadyExists whenever the output path already
\* exists, and it does so before deriving the key, reading the backup file,
\* creating a temp file or writing anything at the output path.
C22_ExtractRejectsExistingOutput ==
    (bk # NoBackup /\ bk.pc # "x_validate_path" /\ bk.out_exists) =>
        /\ bk.pc = "x_done"
        /\ bk.result = "PathAlreadyExists"
        /\ bk.key = <<>>
        /\ ~bk.src_read
        /\ ~bk.tmp_created
        /\ ~bk.out_written

\* extract has rejected an output path that exists
C22_Witness ==
    /\ bk # NoBackup
    /\ bk.pc = "x_done"
    /\ bk.out_exists
    /\ bk.result = "PathAlreadyExists"

\* C23: on a backup file written with chunk size c from a source of at least
\* c bytes, backup_chunk_size returns c + 28; its result depends on the first
\* 5 bytes only, it succeeds whenever 5 bytes are there, however short the
\* rest, and fails when there are fewer.
C23_ChunkSizeIsFirstSectionLength ==
    (call # NoCall /\ call.fn = "backup_chunk_size") =>
        /\ call.ret.ok <=> call.arg.cut >= LEN_SIZE
        /\ call.ret = call.back
        /\ (call.ret.ok /\ Len(call.arg.src) >= call.arg.chunk_size) =>
               call.ret.size = Usize(call.arg.chunk_size + AES_NONCE_SIZE + GCM_TAG_SIZE)

\* backup_chunk_size has succeeded on a backup cut inside its first section
C23_Witness ==
    /\ call # NoCall
    /\ call.fn = "backup_chunk_size"
    /\ Len(call.arg.src) >= call.arg.chunk_size
    /\ call.arg.cut >= LEN_SIZE
    /\ call.arg.cut < LEN_SIZE + AES_NONCE_SIZE
    /\ call.ret.ok
    /\ call.ret.size = Usize(call.arg.chunk_size + 28)

\* C24 as stated: within one backup file no two sections carry the same
\* nonce.
C24_NoncesPairwiseDistinct ==
    (call # NoCall /\ call.fn = "encrypt_file_sync") =>
        LET sections == SectionsOf(call.ret)
        IN  \A j, k \in DOMAIN sections :
                j # k => SectionNonce(sections[j]) # SectionNonce(sections[k])

\* C24, amended: the nonce of the k-th section is the value the generator
\* gave to the call of aes_encrypt that sealed the k-th chunk, one draw for
\* each section, so that two sections of a file carry the same nonce exactly
\* when the generator gave the same value to both calls.
C24_NonceIsTheSectionsOwnDraw ==
    (call # NoCall /\ call.fn = "encrypt_file_sync") =>
        LET sections == SectionsOf(call.ret)
        IN  /\ \A k \in DOMAIN sections :
                   SectionNonce(sections[k]) = GenerateNonce(call.arg.draws[k])
            /\ \A j, k \in DOMAIN sections :
                   SectionNonce(sections[j]) = SectionNonce(sections[k])
                       <=> call.arg.draws[j] = call.arg.draws[k]

\* a file of three sections, the first two sealed under different nonces
\* and the third under the nonce of the first
C24_Witness ==
    /\ call # NoCall
    /\ call.fn = "encrypt_file_sync"
    /\ Len(SectionsOf(call.ret)) = 3
    /\ SectionNonce(SectionsOf(call.ret)[1]) # SectionNonce(SectionsOf(call.ret)[2])
    /\ SectionNonce(SectionsOf(call.ret)[1]) = SectionNonce(SectionsOf(call.ret)[3])

\* whether chunk * total exceeds 2^30, for a chunk size given as a usize and
\* a total of at least 1: by comparing the chunk size with the quotient
\* 2^30 / total, so that no product is formed
ExceedsLimit(chunk, total) ==
    \/ \E i \in 5 .. USIZE_BYTES : chunk[i] # 0
    \/ chunk[4] >= 128
    \/ chunk[1] + 256 * chunk[2] + 65536 * chunk[3] + 16777216 * chunk[4]
           > 1073741824 \div total

C26_FinishAfterEveryTaskRanOnce ==
    tp # NoTaskPool =>
        /\ \A k \in 1 .. tp.num : tp.runs[k] <= 1
        /\ tp.pc = "finished" =>
               /\ \A k \in 1 .. tp.num : tp.runs[k] = 1
               /\ \A i \in TaskPoolWorkers : tp.worker[i].pc = "exited"
               /\ tp.handle.pc = "exited"
        /\ tp.pc # "finished" => ENABLED TaskPoolNext

\* finish has returned on a pool of 2 workers with more tasks queued than
\* the pool's channel holds
C26_Witness ==
    /\ tp # NoTaskPool
    /\ tp.pc = "finished"
    /\ tp.size = 2
    /\ tp.num = MaxQueued

\* C27: in task_channel(N) the task submitted k-th, counted from 0 (its id
\* is k + 1), is handed to worker k mod N and run by it and by no other; the
\* collector takes the result it forwards k-th from worker k mod N, and it is
\* the result of that task; the tasks a worker has run are the first of its
\* own, so it runs them in increasing k; and at most N tasks are being run
\* at any instant.
C27_RoundRobinAssignment ==
    /\ \A k \in 1 .. num_tasks :
           /\ \A j \in 1 .. Len(ran_by[k]) : ran_by[k][j] = (k - 1) % size
           /\ ran_by[k] # <<>> =>
                  \A j \in 1 .. (k - 1) :
                      (j - 1) % size = (k - 1) % size => ran_by[j] # <<>>
    /\ \A i \in WorkerIds :
           workers[i].pc \in {"run", "send", "panicked"} =>
               i = (workers[i].held.id - 1) % size
    /\ dispatcher.pc = "send" =>
           dispatcher.request_index = (dispatcher.held.id - 1) % size
    /\ collector.pc = "send" =>
           /\ collector.response_index = (collector.held.id - 1) % size
           /\ ran_by[collector.held.id] = <<collector.response_index>>
           /\ consumer # "dropped" =>
                  collector.held.id = Len(received) + Len(response_chan) + 1
    /\ Cardinality({i \in WorkerIds : workers[i].pc = "run"}) <= size

\* two workers: the collector holds the result of the fourth task, taken
\* from worker 1, while worker 0 runs the fifth and has run the first and
\* the third
C27_Witness ==
    /\ size = 2
    /\ collector.pc = "send"
    /\ collector.held.id = 4
    /\ collector.response_index = 1
    /\ workers[0].pc = "run"
    /\ workers[0].held.id = 5
    /\ ran_by[1] = <<0>>
    /\ ran_by[3] = <<0>>

\* C28: when decrypt fails with CryptoError at section k, the first section
\* whose tag does not verify (k counted from 0), the destination holds
\* exactly the plaintext of the k sections before it, in order, and nothing
\* of section k or of a later one, whether or not the later ones verify.
C28_PrefixWrittenBeforeCryptoError ==
    (call # NoCall /\ call.fn = "decrypt_file_sync" /\ "tampered" \in DOMAIN call.arg) =>
        LET first == CHOOSE k \in call.arg.tampered : \A j \in call.arg.tampered : k <= j
        IN  /\ call.ret.result = "CryptoError"
            /\ call.ret.sections = first - 1
            /\ call.ret.dest = Slice(call.arg.src, 0, (first - 1) * call.arg.chunk_size)

\* five sections of one byte, the third tampered with and the fifth too:
\* the two bytes before the third are written
C28_Witness ==
    /\ call # NoCall
    /\ call.fn = "decrypt_file_sync"
    /\ "tampered" \in DOMAIN call.arg
    /\ call.arg.tampered = {3, 5}
    /\ Len(call.arg.src) = 5
    /\ call.arg.chunk_size = 1
    /\ call.ret.result = "CryptoError"
    /\ Len(call.ret.dest) = 2

\* C29: when a task panics, the values recv() returns are exactly the
\* results of the tasks submitted before it, in order (before the first such
\* task, if several panic); nothing of that task or of a later one is ever
\* delivered; and the recv() that follows returns None, as at a clean end of
\* the stream, rather than waiting forever.
C29_PanicEndsStreamAfterPrefix ==
    /\ [](Panicked =>
             LET first == CHOOSE k \in 1 .. num_tasks :
                              /\ PanickedTask(k)
                              /\ \A j \in 1 .. num_tasks : PanickedTask(j) => k <= j
             IN  /\ Len(received) <= first - 1
                 /\ \A j \in 1 .. Len(received) :
                        received[j] = [id |-> j, val |-> ReturnValue(j)]
                 /\ \A j \in first .. num_tasks : Delivered(j) = 0
                 /\ consumer = "none" => Len(received) = first - 1)
    /\ Panicked ~> (consumer # "recv")

\* two workers: the fourth task panicked while tasks after it were already
\* submitted, the three results before it were received and then None
C29_Witness ==
    /\ size = 2
    /\ PanickedTask(4)
    /\ sent >= 6
    /\ Len(received) = 3
    /\ consumer = "none"

\* C30: a file made of whole sections of a valid backup file, with sections
\* left out (at the end or elsewhere), repeated or put in another order,
\* decrypts without error under the same key, and the output is the chunks
\* of the sections it is made of, in the order they have in the file.
C30_SectionsAuthenticatedOnTheirOwn ==
    (call # NoCall /\ call.fn = "decrypt_file_sync" /\ "order" \in DOMAIN call.arg) =>
        LET Chunk(k) == Slice(call.arg.src, (k - 1) * call.arg.chunk_size,
                              k * call.arg.chunk_size)
            Chunks[j \in 0 .. Len(call.arg.order)] ==
                IF j = 0 THEN <<>> ELSE Chunks[j - 1] \o Chunk(call.arg.order[j])
        IN  /\ call.ret.result = "Ok"
            /\ call.ret.sections = Len(call.arg.order)
            /\ call.ret.dest = Chunks[Len(call.arg.order)]

\* of a backup of three sections or more, the third section, then the first
\* twice: the output is the third chunk and twice the first
C30_Witness ==
    /\ call # NoCall
    /\ call.fn = "decrypt_file_sync"
    /\ "order" \in DOMAIN call.arg
    /\ call.arg.order = <<3, 1, 1>>
    /\ call.arg.chunk_size = 1
    /\ call.ret.result = "Ok"
    /\ call.ret.dest = <<call.arg.src[3], call.arg.src[1], call.arg.src[1]>>

(***************************************************************************)
(* The GUI application: ui/src/components/app.rs and the component that    *)
(* runs an operation, ui/src/components/running_operation.rs.  The record  *)
(* ui holds the signals of App and, while it is mounted, those of          *)
(* RunningOperation; threads holds every operation thread ever spawned     *)
(* (thread::spawn's JoinHandle is dropped with the component, which        *)
(* detaches the thread and does not stop it).                              *)
(***************************************************************************)
MaxRuns == 3

None == "None"
Operations == {"Backup", "Extraction"}

\* use_signal runs its initialiser only when the component's hooks are first
\* created, never on a later render of the same component
use_signal_every_render(mounted) == TRUE
use_signal_init(mounted) == ~mounted

\* App is mounted: app_state is Loading and the get_config future is spawned
AppMount ==
    /\ ui = NoUi
    /\ call = NoCall /\ bk = NoBackup /\ tp = NoTaskPool
    /\ ui' = [pc |-> "app", app_state |-> "Loading", get_config |-> "running",
              operation |-> None, mounted |-> FALSE, res |-> None, view |-> None,
              threads |-> <<>>, entries |-> 0]
    /\ UNCHANGED <<cfgVars, tp, envVars, poolVars, fileVars, auxVars>>

\* the get_config future: ConfigState::load().await, then app_state.set
GetConfig ==
    /\ ui.pc = "app"
    /\ ui.get_config = "running"
    /\ \E loaded \in {"Ok", "Err"} :
          ui' = [ui EXCEPT !.get_config = "done",
                           !.app_state = IF loaded = "Ok" THEN "Configuring"
                                         ELSE "FailedLoading"]
    /\ UNCHANGED <<cfgVars, tp, envVars, poolVars, fileVars, auxVars>>

\* the start callback App hands to Config, called by a form with an operation
AppStart ==
    /\ ui.pc = "app"
    /\ ui.app_state = "Configuring"
    /\ ui.entries < MaxRuns
    /\ \E operation \in Operations :
          ui' = [ui EXCEPT !.app_state = "Running", !.operation = operation,
                           !.entries = @ + 1]
    /\ UNCHANGED <<cfgVars, tp, envVars, poolVars, fileVars, auxVars>>

\* a render of RunningOperation: the first one creates the hooks, res = None
\* and the operation thread; every one shows the Back button iff res is Some
RenderRunningOperation ==
    /\ ui.pc = "app"
    /\ ui.app_state = "Running"
    /\ ~ui.mounted \/ ui.view # ui.res
    /\ LET spawn == use_signal_init(ui.mounted)
           thread == [pc |-> "execute", operation |-> ui.operation,
                      operation_res |-> None, entry |-> ui.entries]
       IN  ui' = [ui EXCEPT !.mounted = TRUE,
                            !.view = ui.res,
                            !.threads = IF spawn THEN Append(@, thread) ELSE @]
    /\ UNCHANGED <<cfgVars, tp, envVars, poolVars, fileVars, auxVars>>

\* the operation thread: operation.execute() returns
ThreadExecute(i) ==
    /\ ui.threads[i].pc = "execute"
    /\ \E operation_res \in {"Ok", "Err"} :
          ui' = [ui EXCEPT !.threads[i].pc = "set",
                           !.threads[i].operation_res = operation_res]
    /\ UNCHANGED <<cfgVars, tp, envVars, poolVars, fileVars, auxVars>>

\* the operation thread: res.set(Some(operation_res)), the thread's last
\* statement; res is the signal of the component that spawned the thread
ThreadSetRes(i) ==
    /\ ui.threads[i].pc = "set"
    /\ ui' = [ui EXCEPT !.threads[i].pc = "done",
                        !.res = IF ui.mounted /\ ui.threads[i].entry = ui.entries
                                THEN ui.threads[i].operation_res ELSE @]
    /\ UNCHANGED <<cfgVars, tp, envVars, poolVars, fileVars, auxVars>>

OperationThread ==
    /\ ui.pc = "app"
    /\ \E i \in 1 .. Len(ui.threads) : ThreadExecute(i) \/ ThreadSetRes(i)

\* the Back button, which is in the view only when it was rendered with res
\* Some: app_state.set(Loading), get_config.restart(); App renders the Loading
\* arm, which drops RunningOperation and its signals
AppBack ==
    /\ ui.pc = "app"
    /\ ui.app_state = "Running"
    /\ ui.mounted
    /\ ui.view # None
    /\ ui' = [ui EXCEPT !.app_state = "Loading", !.get_config = "running",
                        !.mounted = FALSE, !.res = None, !.view = None]
    /\ UNCHANGED <<cfgVars, tp, envVars, poolVars, fileVars, auxVars>>

AppNext ==
    \/ AppMount
    \/ GetConfig
    \/ AppStart
    \/ RenderRunningOperation
    \/ OperationThread
    \/ AppBack

AppSpec == CallInit /\ [][AppNext]_vars

\* the operation threads that have not stored their result yet
Executing == {i \in 1 .. Len(ui.threads) : ui.threads[i].pc # "done"}

\* the moves of app_state the claim allows
AppStateMove(from, to) ==
    \/ from = "Loading" /\ to \in {"Configuring", "FailedLoading"}
    \/ from = "Configuring" /\ to = "Running"
    \/ from = "Running" /\ to = "Loading"

\* C31: app_state only moves Loading -> Configuring or FailedLoading,
\* Configuring -> Running and Running -> Loading; it leaves Running only when
\* every operation thread has stored its result, so no thread is executing
\* outside Running; and each entry into Running has exactly one operation
\* thread once RunningOperation is mounted, none before.
C31_AppStateMachine ==
    /\ [][(ui.pc = "app" /\ ui'.pc = "app" /\ ui'.app_state # ui.app_state) =>
              /\ AppStateMove(ui.app_state, ui'.app_state)
              /\ ui.app_state = "Running" => (Executing = {} /\ ui.res # None)]_vars
    /\ [](ui.pc = "app" =>
              /\ ui.app_state # "Running" => Executing = {}
              /\ Len(ui.threads) = IF ui.app_state = "Running" /\ ~ui.mounted
                                   THEN ui.entries - 1 ELSE ui.entries
              /\ \A i \in 1 .. Len(ui.threads) : ui.threads[i].entry = i)

\* the second operation is executing: the first run was left with Back after
\* its thread had stored its result, and Start was pressed again
C31_Witness ==
    /\ ui.pc = "app"
    /\ ui.app_state = "Running"
    /\ ui.entries = 2
    /\ Len(ui.threads) = 2
    /\ ui.threads[1].pc = "done"
    /\ ui.threads[2].pc = "execute"

(***************************************************************************)
(* The backup form: ui/src/components/backup_config.rs with its two        *)
(* dialogs, ui/src/components/dialog.rs.  A String is the sequence of its  *)
(* characters; String::len is the length of its UTF-8 encoding in bytes.   *)
(***************************************************************************)
MIN_PASSWORD_LEN == 8

\* the characters typed in the model: one of one byte, one of two bytes
Chars == {"a", "e-acute"}
len_utf8(c) == IF c = "a" THEN 1 ELSE 2

\* String::len(): the number of bytes
StringLen(s) ==
    LET Sum[k \in 0 .. Len(s)] == IF k = 0 THEN 0 ELSE Sum[k - 1] + len_utf8(s[k])
    IN  Sum[Len(s)]

\* s.chars().count(): the number of characters
CharCount(s) == Len(s)

Repeat(c, n) == [k \in 1 .. n |-> c]

\* what is typed into the password fields: around MIN_PASSWORD_LEN characters
\* of one byte, and as many bytes in characters of two bytes
TypedPasswords ==
    {Repeat("a", n) : n \in {0, MIN_PASSWORD_LEN - 1, MIN_PASSWORD_LEN, MIN_PASSWORD_LEN + 1}}
        \cup {Repeat("e-acute", n) : n \in {MIN_PASSWORD_LEN \div 2, MIN_PASSWORD_LEN}}

\* the sliders' positions taken in the model, within min 12 .. max 28 and
\* min 1 .. max 24
FormMagnitudes == {12, 26, 28}
FormPoolSizes == {1, 4, 24}

Dialogs == {"confirm", "password"}

\* start has not been called
NoOperation == [operation |-> None]

\* values BackupConfig computes on every render
over_memory_limit(u) ==
    Greater(estimated_memory_usage(Usize(2 ^ u.chunk_size_magnitude), u.pool_size),
            MEMORY_LIMIT)
form_valid(u) == u.output_path_specified /\ u.exclude_globs_ok
password_error(u) == StringLen(u.password) < MIN_PASSWORD_LEN
confirm_password_error(u) == u.password # u.confirm_password

\* Dialog's ok_disabled property, default false
ok_disabled(u, d) ==
    IF d = "password" THEN password_error(u) \/ confirm_password_error(u) ELSE FALSE

\* the oncloserequest callbacks BackupConfig gives to its two dialogs
oncloserequest(u, d, ok) ==
    IF d = "confirm"
    THEN IF ok THEN [u EXCEPT !.open["password"] = TRUE, !.opened_by = "override"]
         ELSE u
    ELSE IF ok
         THEN [u EXCEPT !.started = [operation |-> "Backup",
                                     chunk_size_magnitude |-> u.chunk_size_magnitude,
                                     pool_size |-> u.pool_size,
                                     password |-> u.password]]
         ELSE [u EXCEPT !.password = <<>>, !.confirm_password = <<>>]

\* state.set(false)
DialogClose(u, d) == [u EXCEPT !.open[d] = FALSE]

\* onclick of the dialog container, which every click in the dialog reaches
\* by bubbling: a click with the mouse outside of the dialog closes it
ContainerOnclick(u, d) ==
    IF ~u.mouse_in[d] THEN DialogClose(oncloserequest(u, d, FALSE), d) ELSE u

\* BackupConfig is mounted with the values of the loaded configuration
BackupFormMount ==
    /\ ui = NoUi
    /\ call = NoCall /\ bk = NoBackup /\ tp = NoTaskPool
    /\ \E magnitude \in FormMagnitudes, pool_size \in FormPoolSizes,
          output \in BOOLEAN :
          ui' = [pc |-> "backup_form",
                 output_path_specified |-> output, exclude_globs_ok |-> TRUE,
                 chunk_size_magnitude |-> magnitude, pool_size |-> pool_size,
                 open |-> [d \in Dialogs |-> FALSE],
                 mouse_in |-> [d \in Dialogs |-> FALSE],
                 password |-> <<>>, confirm_password |-> <<>>,
                 opened_by |-> "none", started |-> NoOperation, event |-> "mount"]
    /\ UNCHANGED <<cfgVars, tp, envVars, poolVars, fileVars, auxVars>>

\* the form is in the page, and no dialog container lies over it
FormReachable ==
    /\ ui.pc = "backup_form"
    /\ ui.started = NoOperation
    /\ \A d \in Dialogs : ~ui.open[d]

\* a control of dialog d can be used
DialogReachable(d) ==
    /\ ui.pc = "backup_form"
    /\ ui.started = NoOperation
    /\ ui.open[d]

\* the controls of the form: the output path, the exclusion globs, the two
\* sliders
BackupFormEdit ==
    /\ FormReachable
    /\ \/ \E output \in BOOLEAN :
             ui' = [ui EXCEPT !.output_path_specified = output, !.event = "edit"]
       \/ \E globs_ok \in BOOLEAN :
             ui' = [ui EXCEPT !.exclude_globs_ok = globs_ok, !.event = "edit"]
       \/ \E magnitude \in FormMagnitudes :
             ui' = [ui EXCEPT !.chunk_size_magnitude = magnitude, !.event = "edit"]
       \/ \E pool_size \in FormPoolSizes :
             ui' = [ui EXCEPT !.pool_size = pool_size, !.event = "edit"]
    /\ UNCHANGED <<cfgVars, tp, envVars, poolVars, fileVars, auxVars>>

\* the Start button of the form, disabled unless form_valid
StartClick ==
    /\ FormReachable
    /\ form_valid(ui)
    /\ ui' = IF over_memory_limit(ui)
             THEN [ui EXCEPT !.open["confirm"] = TRUE, !.event = "start"]
             ELSE [ui EXCEPT !.open["password"] = TRUE, !.opened_by = "start",
                             !.event = "start"]
    /\ UNCHANGED <<cfgVars, tp, envVars, poolVars, fileVars, auxVars>>

\* onmouseenter and onmouseleave of the dialog
DialogMouse(d) ==
    /\ DialogReachable(d)
    /\ ui' = [ui EXCEPT !.mouse_in[d] = ~@, !.event = "mouse"]
    /\ UNCHANGED <<cfgVars, tp, envVars, poolVars, fileVars, auxVars>>

\* the two TextInputs of the password dialog: state.set(event.value())
TypePassword ==
    /\ DialogReachable("password")
    /\ \E value \in TypedPasswords :
          \/ ui' = [ui EXCEPT !.password = value, !.event = "input"]
          \/ ui' = [ui EXCEPT !.confirm_password = value, !.event = "input"]
    /\ UNCHANGED <<cfgVars, tp, envVars, poolVars, fileVars, auxVars>>

\* the ok button of a dialog (close_on_ok is true), then the container
DialogOk(d) ==
    /\ DialogReachable(d)
    /\ ~ok_disabled(ui, d)
    /\ ui' = [ContainerOnclick(DialogClose(oncloserequest(ui, d, TRUE), d), d)
                 EXCEPT !.event = "ok"]
    /\ UNCHANGED <<cfgVars, tp, envVars, poolVars, fileVars, auxVars>>

\* the cancel button (close_on_cancel is true) or the X of the header, then
\* the container
DialogCancel(d) ==
    /\ DialogReachable(d)
    /\ ui' = [ContainerOnclick(DialogClose(oncloserequest(ui, d, FALSE), d), d)
                 EXCEPT !.event = "cancel"]
    /\ UNCHANGED <<cfgVars, tp, envVars, poolVars, fileVars, auxVars>>

\* a click on the container beside the dialog
DialogBackdrop(d) ==
    /\ DialogReachable(d)
    /\ ~ui.mouse_in[d]
    /\ ui' = [ContainerOnclick(ui, d) EXCEPT !.event = "cancel"]
    /\ UNCHANGED <<cfgVars, tp, envVars, poolVars, fileVars, auxVars>>

BackupFormNext ==
    \/ BackupFormMount
    \/ BackupFormEdit
    \/ StartClick
    \/ TypePassword
    \/ \E d \in Dialogs : DialogMouse(d)
    \/ \E d \in Dialogs : DialogOk(d)
    \/ \E d \in Dialogs : DialogCancel(d)
    \/ \E d \in Dialogs : DialogBackdrop(d)

BackupFormSpec == CallInit /\ [][BackupFormNext]_vars

\* what the claim says of a step of the form, with the length of the password
\* counted by Count
StartStep(Count(_)) ==
    (ui.pc = "backup_form" /\ ui'.pc = "backup_form") =>
        /\ (ui.started = NoOperation /\ ui'.started # NoOperation) =>
               /\ ui'.event = "ok"
               /\ ui.open["password"]
               /\ Count(ui.password) >= MIN_PASSWORD_LEN
               /\ ui.password = ui.confirm_password
               /\ ui'.started.password = ui.password
        /\ (ui'.event = "cancel" /\ ui.open["password"]) =>
               /\ ui'.password = <<>>
               /\ ui'.confirm_password = <<>>
               /\ ui'.started = ui.started
               /\ ~ui'.open["password"]

\* over the limit the password dialog was opened by the override dialog
OverLimitOverridden ==
    (ui.pc = "backup_form" /\ ui.open["password"] /\ over_memory_limit(ui))
        => ui.opened_by = "override"

\* C32: a Backup operation is started only by the OK action of the password
\* dialog, taken with a password of at least 8 characters that equals the
\* confirmation; over the memory limit the password dialog is open only
\* after the override dialog was confirmed; cancelling the password dialog
\* clears both password fields and starts nothing.
C32_StartOnlyThroughPasswordDialog ==
    [][StartStep(CharCount)]_vars /\ []OverLimitOverridden

\* the same with the length String::len gives, the number of bytes
StartWithEightBytes ==
    [][StartStep(StringLen)]_vars /\ []OverLimitOverridden

\* a backup was started over the memory limit, with a password of 4
\* characters of two bytes each
C32_Witness ==
    /\ ui.pc = "backup_form"
    /\ ui.started # NoOperation
    /\ over_memory_limit(ui)
    /\ ui.opened_by = "override"
    /\ CharCount(ui.started.password) < MIN_PASSWORD_LEN

(***************************************************************************)
(* The configuration file and the two forms that save to it:               *)
(* ui/src/services/config.rs, and the use_effect of backup_config.rs and   *)
(* extraction_config.rs.  Of each form the model keeps one field, its pool *)
(* size.  The tasks are those of the Dioxus runtime: they take turns at    *)
(* their awaits.                                                           *)
(***************************************************************************)
MaxEdits == 2
DEFAULT_POOL_SIZE == 4

Forms == {"backup_config", "extraction_config"}
OtherForm(f) == IF f = "backup_config" THEN "extraction_config" ELSE "backup_config"

\* a field of ConfigOpt that the file does not give
Absent == 0

\* the file before the application starts: none, or a ConfigOpt
ConfigFiles ==
    {[exists |-> FALSE]} \cup
    {[exists |-> TRUE, opt |-> [backup_config |-> b, extraction_config |-> x]] :
        b \in {Absent, 1}, x \in {Absent, 24}}

\* Config::from(ConfigOpt): unwrap_or on every field
ConfigFromOpt(opt) ==
    [f \in Forms |-> IF opt[f] = Absent THEN DEFAULT_POOL_SIZE ELSE opt[f]]

\* ConfigOpt::from(Config): Some of every field
OptFromConfig(config) == [f \in Forms |-> config[f]]

\* Config::load()
ConfigLoad(file) ==
    IF file.exists THEN ConfigFromOpt(file.opt)
    ELSE ConfigFromOpt([f \in Forms |-> Absent])

\* Config::save(&self)
ConfigSave(config) == [exists |-> TRUE, opt |-> OptFromConfig(config)]

\* use_effect: save_task.replace(Some(spawn(sleep, then save_config))), then
\* the previous task is cancelled: of the pending timers only the new one is
\* left
Debounce(pending, value) == <<value>>

RemoveAt(s, i) == SubSeq(s, 1, i - 1) \o SubSeq(s, i + 1, Len(s))

\* Config is mounted with the configuration App loaded; the effect of each
\* form runs after its first render
ConfigMount ==
    /\ ui = NoUi
    /\ call = NoCall /\ bk = NoBackup /\ tp = NoTaskPool
    /\ \E file \in ConfigFiles :
          ui' = [pc |-> "config", file |-> file,
                 form |-> ConfigLoad(file),
                 save_task |-> [f \in Forms |-> Debounce(<<>>, ConfigLoad(file)[f])],
                 saving |-> <<>>, edits |-> 0]
    /\ UNCHANGED <<cfgVars, tp, envVars, poolVars, fileVars, auxVars>>

\* a control of form f sets a signal, and the effect of the form runs again
FormEdit(f) ==
    /\ ui.pc = "config"
    /\ ui.edits < MaxEdits
    /\ \E value \in FormPoolSizes \ {ui.form[f]} :
          ui' = [ui EXCEPT !.form[f] = value,
                           !.save_task[f] = Debounce(@, value),
                           !.edits = @ + 1]
    /\ UNCHANGED <<cfgVars, tp, envVars, poolVars, fileVars, auxVars>>

\* sleep(SAVE_CONFIG_SLEEP_DURATION) is over in a task that was not cancelled:
\* save_config spawns the task that loads, modifies and saves
DebounceElapsed(f) ==
    /\ ui.pc = "config"
    /\ \E i \in 1 .. Len(ui.save_task[f]) :
          ui' = [ui EXCEPT !.save_task[f] = RemoveAt(@, i),
                           !.saving = Append(@, [form |-> f, value |-> ui.save_task[f][i],
                                                 pc |-> "load",
                                                 config |-> ConfigLoad([exists |-> FALSE])])]
    /\ UNCHANGED <<cfgVars, tp, envVars, poolVars, fileVars, auxVars>>

\* save_config: ConfigState::load().await returns
SaveConfigLoad(i) ==
    /\ ui.saving[i].pc = "load"
    /\ ui' = [ui EXCEPT !.saving[i].pc = "save",
                        !.saving[i].config = ConfigLoad(ui.file)]
    /\ UNCHANGED <<cfgVars, tp, envVars, poolVars, fileVars, auxVars>>

\* save_config: the fields of the form are set in the loaded config, and
\* config.save().await writes the file
SaveConfigSave(i) ==
    /\ ui.saving[i].pc = "save"
    /\ LET task == ui.saving[i]
           config == [task.config EXCEPT ![task.form] = task.value]
       IN  ui' = [ui EXCEPT !.file = ConfigSave(config),
                            !.saving = RemoveAt(@, i)]
    /\ UNCHANGED <<cfgVars, tp, envVars, poolVars, fileVars, auxVars>>

SaveConfig ==
    /\ ui.pc = "config"
    /\ \E i \in 1 .. Len(ui.saving) : SaveConfigLoad(i) \/ SaveConfigSave(i)

ConfigNext ==
    \/ ConfigMount
    \/ \E f \in Forms : FormEdit(f)
    \/ \E f \in Forms : DebounceElapsed(f)
    \/ SaveConfig

ConfigSpec == CallInit /\ [][ConfigNext]_vars

\* no timer is pending and no save is under way
Quiescent ==
    /\ \A f \in Forms : ui.save_task[f] = <<>>
    /\ ui.saving = <<>>

\* C33: once the timers have elapsed and the saves are done, the file holds
\* the latest values of both forms; a save of one form leaves what the file
\* holds for the other form as it is; each form has at most one pending
\* debounce timer.
C33_FileHoldsLatestOfBothForms ==
    /\ [](ui.pc = "config" =>
              /\ Quiescent => ConfigLoad(ui.file) = ui.form
              /\ \A f \in Forms : Len(ui.save_task[f]) <= 1)
    /\ [][(ui.pc = "config" /\ ui'.pc = "config" /\ Len(ui'.saving) < Len(ui.saving)) =>
              \E i \in 1 .. Len(ui.saving) :
                  /\ ui'.saving = RemoveAt(ui.saving, i)
                  /\ ConfigLoad(ui'.file)[OtherForm(ui.saving[i].form)]
                         = ConfigLoad(ui.file)[OtherForm(ui.saving[i].form)]]_vars

\* each form has at most one pending debounce timer, and a save writes the
\* value its timer was started with
AtMostOnePendingTimer ==
    ui.pc = "config" =>
        /\ \A f \in Forms : Len(ui.save_task[f]) <= 1
        /\ \A f \in Forms : ui.save_task[f] # <<>> => ui.save_task[f][1] = ui.form[f]

\* all is quiet and the file holds an older value of the backup form
C33_Witness ==
    /\ ui.pc = "config"
    /\ Quiescent
    /\ ui.edits = MaxEdits
    /\ ConfigLoad(ui.file)["backup_config"] # ui.form["backup_config"]
    /\ ConfigLoad(ui.file)["extraction_config"] = ui.form["extraction_config"]

(***************************************************************************)
(* The two list editors of the backup form:                                *)
(* ui/src/components/include_paths_select.rs and exclude_globs.rs, which   *)
(* differ in their remove handler.  An Option<usize> is the empty sequence *)
(* (None) or <<index>> (Some(index)); indices start at 0 as in the source. *)
(***************************************************************************)
MaxListed == 3

ListEditors == {"include_paths_select", "exclude_globs"}
ListedItems == {"a", "b"}

\* paths.swap(i, j) on a Vec with both indices in range
VecSwap(paths, i, j) ==
    [k \in 1 .. Len(paths) |-> IF k = i + 1 THEN paths[j + 1]
                               ELSE IF k = j + 1 THEN paths[i + 1] ELSE paths[k]]

\* paths.remove(index)
VecRemove(paths, index) == SubSeq(paths, 1, index) \o SubSeq(paths, index + 2, Len(paths))

\* can_move_up and can_move_down, computed on every render; with an empty
\* list `len - 1` wraps to usize::MAX in a build without overflow checks
can_move_up(u) ==
    IF u.selected_index = <<>> THEN FALSE ELSE u.selected_index[1] > 0
can_move_down(u) ==
    IF u.selected_index = <<>> THEN FALSE
    ELSE IF Len(u.state) = 0 THEN TRUE
    ELSE u.selected_index[1] < Len(u.state) - 1

\* the render that follows a handler: in a build with overflow checks
\* `state.with(Vec::len) - 1` panics when it is evaluated on an empty list
Rendered(u) ==
    IF u.selected_index # <<>> /\ Len(u.state) = 0 /\ u.overflow_checks
    THEN [u EXCEPT !.panicked = TRUE] ELSE u

\* what the remove handler does with the selection: nothing in
\* IncludePathsSelect; in ExcludeGlobs the selection is dropped with its
\* entry and follows the entries after the removed one
RemoveAdjust(editor, selected, index) ==
    IF editor = "include_paths_select" \/ selected = <<>> THEN selected
    ELSE IF selected[1] = index THEN <<>>
    ELSE IF selected[1] > index THEN <<selected[1] - 1>>
    ELSE selected

\* the component is mounted with the list of the loaded configuration
ListMount ==
    /\ ui = NoUi
    /\ call = NoCall /\ bk = NoBackup /\ tp = NoTaskPool
    /\ \E editor \in ListEditors, checks \in BOOLEAN,
          state \in UNION {[1 .. n -> ListedItems] : n \in 0 .. MaxListed - 1} :
          ui' = [pc |-> "list", editor |-> editor, overflow_checks |-> checks,
                 state |-> state, selected_index |-> <<>>, panicked |-> FALSE,
                 moved |-> <<>>]
    /\ UNCHANGED <<cfgVars, tp, envVars, poolVars, fileVars, auxVars>>

ListAlive == ui.pc = "list" /\ ~ui.panicked

\* the plus button: a path chosen in the file dialog, or an empty pattern
ListAdd ==
    /\ ListAlive
    /\ Len(ui.state) < MaxListed
    /\ \E item \in ListedItems :
          ui' = Rendered([ui EXCEPT !.state = Append(@, item), !.moved = <<>>])
    /\ UNCHANGED <<cfgVars, tp, envVars, poolVars, fileVars, auxVars>>

\* a click on the entry at index
ListSelect ==
    /\ ListAlive
    /\ \E index \in 0 .. Len(ui.state) - 1 :
          ui' = Rendered([ui EXCEPT !.selected_index = <<index>>, !.moved = <<>>])
    /\ UNCHANGED <<cfgVars, tp, envVars, poolVars, fileVars, auxVars>>

\* the X of the entry at index
ListRemove ==
    /\ ListAlive
    /\ \E index \in 0 .. Len(ui.state) - 1 :
          ui' = Rendered([ui EXCEPT
                    !.state = VecRemove(@, index),
                    !.selected_index = RemoveAdjust(ui.editor, @, index),
                    !.moved = <<>>])
    /\ UNCHANGED <<cfgVars, tp, envVars, poolVars, fileVars, auxVars>>

\* the arrow buttons, enabled by can_move_up and can_move_down: swap panics
\* when an index is out of bounds
ListMove(enabled, to) ==
    /\ ListAlive
    /\ enabled
    /\ ui' = IF ui.selected_index[1] >= Len(ui.state) \/ to >= Len(ui.state)
             THEN [ui EXCEPT !.panicked = TRUE, !.moved = <<>>]
             ELSE Rendered([ui EXCEPT !.state = VecSwap(@, ui.selected_index[1], to),
                                      !.selected_index = <<to>>,
                                      !.moved = <<ui.selected_index[1]>>])
    /\ UNCHANGED <<cfgVars, tp, envVars, poolVars, fileVars, auxVars>>

ListMoveUp == ListMove(can_move_up(ui), ui.selected_index[1] - 1)
ListMoveDown == ListMove(can_move_down(ui), ui.selected_index[1] + 1)

ListNext ==
    \/ ListMount
    \/ ListAdd
    \/ ListSelect
    \/ ListRemove
    \/ ListMoveUp
    \/ ListMoveDown

ListSpec == CallInit /\ [][ListNext]_vars

\* how often item occurs in paths
Occurrences(paths, item) == Cardinality({k \in 1 .. Len(paths) : paths[k] = item})

\* what the claim says of the list editor named editor
SelectionValid(editor) ==
    (ui.pc = "list" /\ ui.editor = editor) =>
        /\ ~ui.panicked
        /\ ui.selected_index = <<>> \/ ui.selected_index[1] < Len(ui.state)
        /\ ui.selected_index # <<>> => Len(ui.state) > 0

\* a move to the next state is a swap of the selected entry with a neighbour
MovePermutes ==
    (ui.pc = "list" /\ ui'.pc = "list" /\ ui'.moved # <<>>) =>
        /\ Len(ui'.state) = Len(ui.state)
        /\ \A item \in ListedItems :
               Occurrences(ui'.state, item) = Occurrences(ui.state, item)
        /\ ui'.state[ui'.selected_index[1] + 1] = ui.state[ui.selected_index[1] + 1]
        /\ ui'.selected_index[1] - ui.selected_index[1] \in {-1, 1}

\* C34: in the include-paths editor the selected index is None or a valid
\* index of the list after any sequence of add, select, remove, move-up and
\* move-down, so that neither `len - 1` underflows nor a swap is out of
\* bounds; a move permutes the list and the selection stays on the moved
\* entry.
C34_SelectedIndexValid ==
    []SelectionValid("include_paths_select") /\ [][MovePermutes]_vars

\* the same of the exclusion globs editor, whose remove handler adjusts the
\* selection
ExcludeGlobsSelectedIndexValid ==
    []SelectionValid("exclude_globs") /\ [][MovePermutes]_vars

\* the last of two include paths was selected and the first removed: the
\* selected index is 1 in a list of one entry
C34_Witness ==
    /\ ui.pc = "list"
    /\ ui.editor = "include_paths_select"
    /\ ~ui.panicked
    /\ Len(ui.state) = 1
    /\ ui.selected_index = <<1>>

====
